---- MODULE Spec2Model ----
(***************************************************************************)
(* A model of atlas-mysql (src/src/mysql-orm.ts): the MySQLORM query       *)
(* compiler (buildQuery and its helpers), the operations getData,          *)
(* getFirst, insertData, batchInsertData, updateData, deleteData, rawQuery *)
(* and createTable, run against a mocked pool that records every statement *)
(* handed to pool.query, withTransaction with its Transaction object, and  *)
(* the QueryLogger of src/src/query-logger.ts with the lines it writes.    *)
(*                                                                         *)
(* SQL text is modelled as TLA+ strings, built with \o exactly where the    *)
(* code concatenates, and searched character by character where the code   *)
(* uses a regular expression or String.includes.                           *)
(***************************************************************************)
EXTENDS Integers, Sequences, FiniteSets, TLC

(***************************************************************************)
(* String primitives (JavaScript String / RegExp building blocks).         *)
(***************************************************************************)

\* s.charAt(i-1): the i-th character, as a one-character string; the empty
\* string outside the text.
CharAt(s, i) == IF i < 1 \/ i > Len(s) THEN "" ELSE SubSeq(s, i, i)

\* s.slice(i-1): the suffix that starts at the i-th character.
StrFrom(s, i) == IF i > Len(s) THEN "" ELSE SubSeq(s, i, Len(s))

\* s.slice(0, n): the first n characters.
StrTake(s, n) == IF n <= 0 THEN "" ELSE SubSeq(s, 1, n)

\* s.startsWith(p, i-1)
StartsWithAt(s, p, i) ==
    /\ i >= 1
    /\ i + Len(p) - 1 <= Len(s)
    /\ SubSeq(s, i, i + Len(p) - 1) = p

\* s.includes(sub)
Includes(s, sub) == \E i \in 1..(Len(s) + 1) : StartsWithAt(s, sub, i)

\* s.indexOf(sub) + 1; 0 when sub does not occur.
IndexOf(s, sub) ==
    LET at == {i \in 1..(Len(s) + 1) : StartsWithAt(s, sub, i)}
    IN IF at = {} THEN 0 ELSE CHOOSE i \in at : \A j \in at : i <= j

DigitChars == "0123456789"

\* The upper-case letter of every lower-case ASCII letter.
UpperOf ==
    ("a" :> "A") @@ ("b" :> "B") @@ ("c" :> "C") @@ ("d" :> "D") @@ ("e" :> "E") @@
    ("f" :> "F") @@ ("g" :> "G") @@ ("h" :> "H") @@ ("i" :> "I") @@ ("j" :> "J") @@
    ("k" :> "K") @@ ("l" :> "L") @@ ("m" :> "M") @@ ("n" :> "N") @@ ("o" :> "O") @@
    ("p" :> "P") @@ ("q" :> "Q") @@ ("r" :> "R") @@ ("s" :> "S") @@ ("t" :> "T") @@
    ("u" :> "U") @@ ("v" :> "V") @@ ("w" :> "W") @@ ("x" :> "X") @@ ("y" :> "Y") @@
    ("z" :> "Z")

\* One character of String.prototype.toUpperCase (ASCII).
UpperChar(c) == IF c \in DOMAIN UpperOf THEN UpperOf[c] ELSE c

RECURSIVE ToUpperCase(_)
\* String.prototype.toUpperCase; also the case folding of the /i flag.
ToUpperCase(s) ==
    IF s = "" THEN "" ELSE UpperChar(CharAt(s, 1)) \o ToUpperCase(StrFrom(s, 2))

\* The characters of the regular expression class \w: [A-Za-z0-9_].
WordChars ==
    { "a", "b", "c", "d", "e", "f", "g", "h", "i", "j", "k", "l", "m",
      "n", "o", "p", "q", "r", "s", "t", "u", "v", "w", "x", "y", "z",
      "A", "B", "C", "D", "E", "F", "G", "H", "I", "J", "K", "L", "M",
      "N", "O", "P", "Q", "R", "S", "T", "U", "V", "W", "X", "Y", "Z",
      "0", "1", "2", "3", "4", "5", "6", "7", "8", "9", "_" }

\* The regular expression class \w.
IsWordChar(c) == c \in WordChars

\* The regular expression class \s.
IsSpaceChar(c) == c \in {" ", "\t", "\n"}

\* /\bKW\b/i .test(s), for a keyword KW made of word characters.
MatchesWord(s, kw) ==
    LET up == ToUpperCase(s)
    IN \E i \in 1..Len(s) :
           /\ StartsWithAt(up, kw, i)
           /\ (i = 1 \/ ~IsWordChar(CharAt(s, i - 1)))
           /\ (i + Len(kw) > Len(s) \/ ~IsWordChar(CharAt(s, i + Len(kw))))

RECURSIVE Join(_, _)
\* Array.prototype.join
Join(strs, sep) ==
    IF Len(strs) = 0 THEN ""
    ELSE IF Len(strs) = 1 THEN strs[1]
    ELSE strs[1] \o sep \o Join(Tail(strs), sep)

\* s.replace(pat, rep) with a string pattern: the first occurrence only.
ReplaceFirst(s, pat, rep) ==
    LET at == IndexOf(s, pat)
    IN IF at = 0 THEN s
       ELSE StrTake(s, at - 1) \o rep \o StrFrom(s, at + Len(pat))

\* String.prototype.trim
RECURSIVE Trim(_)
Trim(s) ==
    IF s = "" THEN ""
    ELSE IF IsSpaceChar(CharAt(s, 1)) THEN Trim(StrFrom(s, 2))
    ELSE IF IsSpaceChar(CharAt(s, Len(s))) THEN Trim(StrTake(s, Len(s) - 1))
    ELSE s

\* String(n) for an integer n >= 0.
RECURSIVE NatToString(_)
NatToString(n) ==
    IF n < 10 THEN CharAt(DigitChars, n + 1)
    ELSE NatToString(n \div 10) \o CharAt(DigitChars, (n % 10) + 1)

\* Math.abs on integers.
Abs(n) == IF n < 0 THEN 0 - n ELSE n

\* Math.max
Max(a, b) == IF a >= b THEN a ELSE b

\* The identifier quote character U+0060. The TLA+ lexer does not accept that
\* character inside a string, so SQL text writes it as ^ throughout.
BackTick == "^"

\* The single quote character.
SingleQuote == "'"

\* escapeId of mysql2, as the mock of the test suite defines it.
EscapeId(str) == BackTick \o str \o BackTick

(***************************************************************************)
(* QueryConfig.  A config is a record                                      *)
(*   fields   : sequence of [key, kind, val, sub] in insertion order, kind *)
(*              "col" (a string), "raw" ({raw: val}) or "sub" (a nested    *)
(*              QueryConfig, the single element of sub)                    *)
(*   idField  : string          table : sequence of table names            *)
(*   joins    : sequence of [type, table, on]                              *)
(*   where, having : sequences of strings                                  *)
(*   whereIn, whereNotIn : sequences of [key, values] in key order         *)
(*   limit, offset : << >> when undefined, << n >> otherwise               *)
(*   orderBy  : [kind, items], kind "none", "string", "strings" or         *)
(*              "objects"; items are [column, direction], direction ""     *)
(*              when the entry gives none                                  *)
(*   orderDirection : "" when undefined, else "ASC" or "DESC"              *)
(*   groupBy  : sequence of strings, << >> when undefined                  *)
(*   union    : sequence of configs     distinct : BOOLEAN                 *)
(***************************************************************************)

\* config.fields[fieldOrAlias] is a non-empty string.
HasStringField(config, fieldOrAlias) ==
    \E i \in 1..Len(config.fields) :
        /\ config.fields[i].key = fieldOrAlias
        /\ config.fields[i].kind = "col"
        /\ config.fields[i].val # ""

\* MySQLORM.resolveColumnName
ResolveColumnName(fieldOrAlias, config) ==
    IF HasStringField(config, fieldOrAlias)
    THEN LET i == CHOOSE j \in 1..Len(config.fields) :
                     /\ config.fields[j].key = fieldOrAlias
                     /\ config.fields[j].kind = "col"
         IN config.fields[i].val
    ELSE fieldOrAlias

\* The operator alternatives of fieldPattern in resolveWhereClause.
WhereOperators ==
    << "=", "!=", "<>", "<", ">", "<=", ">=", "<=>", "LIKE", "NOT LIKE", "IN",
       "NOT IN", "IS NULL", "IS NOT NULL", "BETWEEN" >>

\* Length of the longest run of \w characters of s that starts at position i.
WordRunLen(s, i) ==
    CHOOSE n \in 0..Len(s) :
        /\ i + n - 1 <= Len(s)
        /\ (i + n > Len(s) \/ ~IsWordChar(CharAt(s, i + n)))
        /\ \A j \in i..(i + n - 1) : IsWordChar(CharAt(s, j))

\* The position where a greedy \s* that starts at position i stops.
SkipSpaces(s, i) ==
    CHOOSE p \in i..(Len(s) + 1) :
        /\ \A j \in i..(p - 1) : IsSpaceChar(CharAt(s, j))
        /\ (p > Len(s) \/ ~IsSpaceChar(CharAt(s, p)))

\* One of the operator alternatives matches at position i of the upper-cased
\* clause up (flag /i).
OperatorAt(up, i) ==
    \E k \in 1..Len(WhereOperators) : StartsWithAt(up, WhereOperators[k], i)

\* The lengths n for which the first n characters of s have the shape
\* \w+(?:\.\w+)? as the greedy matcher can carve it, run1 being the length of
\* the first run of \w characters.
FieldShapesAfter(s, run1) ==
    (1..run1)
        \cup (IF run1 >= 1 /\ CharAt(s, run1 + 1) = "."
              THEN (run1 + 2)..(run1 + 1 + WordRunLen(s, run1 + 2))
              ELSE {})

FieldShapes(s) == FieldShapesAfter(s, WordRunLen(s, 1))

\* The candidate the backtracking matcher settles on: it tries the candidates
\* for group 1 from the longest to the shortest; 0 when there is none.
LongestOf(cands) ==
    IF cands = {} THEN 0 ELSE CHOOSE n \in cands : \A m \in cands : m <= n

\* Length of match[1] of clause.match(fieldPattern), 0 when there is no match:
\* the longest candidate for group 1 after which \s*(operator) matches.
WhereFieldLen(clause) ==
    LET up == ToUpperCase(clause)
    IN LongestOf({n \in FieldShapes(clause) : OperatorAt(up, SkipSpaces(clause, n + 1))})

RECURSIVE ReplaceEvery(_, _, _)
\* String.prototype.replaceAll with a text pattern.
ReplaceEvery(s, pat, rep) ==
    IF pat = "" \/ IndexOf(s, pat) = 0 THEN s
    ELSE StrTake(s, IndexOf(s, pat) - 1) \o rep
             \o ReplaceEvery(StrFrom(s, IndexOf(s, pat) + Len(pat)), pat, rep)

\* A resolveWhereClause that replaces every occurrence of the matched field
\* name, not only the leading one.
ReplaceFieldNameEverywhere(clause, n, config) ==
    IF n > 0
    THEN ReplaceEvery(clause, StrTake(clause, n),
                      ResolveColumnName(StrTake(clause, n), config))
    ELSE clause

\* The replacement resolveWhereClause makes when fieldPattern matched the
\* first n characters of clause.
ReplaceFieldName(clause, n, config) ==
    IF n > 0
    THEN ReplaceFirst(clause, StrTake(clause, n),
                      ResolveColumnName(StrTake(clause, n), config))
    ELSE clause

\* MySQLORM.resolveWhereClause
ResolveWhereClause(clause, config) ==
    ReplaceFieldName(clause, WhereFieldLen(clause), config)

\* Length of the keyword (ASC|DESC)$ with flag /i at the end of the
\* upper-cased text up, 0 when there is none.
DirectionKeywordLen(up) ==
    IF Len(up) >= 4 /\ StartsWithAt(up, "DESC", Len(up) - 3) THEN 4
    ELSE IF Len(up) >= 3 /\ StartsWithAt(up, "ASC", Len(up) - 2) THEN 3
    ELSE 0

\* kw when at least one \s character precedes the keyword of length kw that
\* ends column, else 0.
AfterSpace(column, kw) ==
    IF kw > 0 /\ Len(column) > kw /\ IsSpaceChar(CharAt(column, Len(column) - kw))
    THEN kw ELSE 0

\* Length of the keyword that /\s+(ASC|DESC)$/i finds at the end of column,
\* 0 when the pattern does not match.
DirectionSuffixLen(column) == AfterSpace(column, DirectionKeywordLen(ToUpperCase(column)))

\* Start of the leftmost match of /\s+(ASC|DESC)$/i in column, the keyword
\* starting at position kwStart.
DirectionSuffixStart(column, kwStart) ==
    CHOOSE i \in 1..(kwStart - 1) :
        /\ \A j \in i..(kwStart - 1) : IsSpaceChar(CharAt(column, j))
        /\ (i = 1 \/ ~IsSpaceChar(CharAt(column, i - 1)))

\* resolveOrderByColumn for a column whose direction keyword has length kw
\* (0: no direction).
ResolveWithDirection(column, kw, config) ==
    IF kw = 0
    THEN ResolveColumnName(Trim(column), config)
    ELSE ResolveColumnName(
             Trim(StrTake(column, DirectionSuffixStart(column, Len(column) - kw + 1) - 1)),
             config)
             \o " " \o StrFrom(column, Len(column) - kw + 1)

\* MySQLORM.resolveOrderByColumn
ResolveOrderByColumn(column, config) ==
    ResolveWithDirection(column, DirectionSuffixLen(column), config)

\* The substrings of dangerousPatterns in validateJoinOnClause.
JoinOnDangerousTexts == << ";", "--", "/*" >>

\* The whole-word keywords of dangerousPatterns in validateJoinOnClause.
JoinOnDangerousWords ==
    << "UNION", "DROP", "DELETE", "INSERT", "UPDATE", "EXEC", "EXECUTE" >>

JoinOnError ==
    "Invalid JOIN ON clause: potentially dangerous pattern detected. ON clauses must only contain column comparisons."

\* validateJoinOnClause with the keyword patterns lacking the /i flag.
ValidateJoinOnClauseCaseSensitive(onClause) ==
    \/ \E k \in 1..Len(JoinOnDangerousTexts) : Includes(onClause, JoinOnDangerousTexts[k])
    \/ \E k \in 1..Len(JoinOnDangerousWords) :
           \E i \in 1..Len(onClause) :
               /\ StartsWithAt(onClause, JoinOnDangerousWords[k], i)
               /\ (i = 1 \/ ~IsWordChar(CharAt(onClause, i - 1)))
               /\ \/ i + Len(JoinOnDangerousWords[k]) > Len(onClause)
                  \/ ~IsWordChar(CharAt(onClause, i + Len(JoinOnDangerousWords[k])))

\* MySQLORM.validateJoinOnClause: TRUE when it throws.
ValidateJoinOnClauseThrows(onClause) ==
    \/ \E k \in 1..Len(JoinOnDangerousTexts) : Includes(onClause, JoinOnDangerousTexts[k])
    \/ \E k \in 1..Len(JoinOnDangerousWords) : MatchesWord(onClause, JoinOnDangerousWords[k])

(***************************************************************************)
(* MySQLORM.buildQuery.  The result is [threw, error, query,               *)
(* additionalValues]: threw is TRUE when the call throws error, otherwise  *)
(* query and additionalValues are the returned pair.                       *)
(***************************************************************************)

Thrown(msg) == [threw |-> TRUE, error |-> msg, query |-> "", additionalValues |-> << >>]

Built(q, vals) == [threw |-> FALSE, error |-> "", query |-> q, additionalValues |-> vals]

\* Array.isArray(table) ? table.map(escapeId).join(', ') : escapeId(table)
TableList(table) == Join([i \in 1..Len(table) |-> EscapeId(table[i])], ", ")

\* values.map(() => '?').join(', ')
Placeholders(values) == Join([i \in 1..Len(values) |-> "?"], ", ")

RECURSIVE BuildQuery(_, _)

RECURSIVE SelectFields(_)
\* The loop over fields of buildQuery (row mode): the text it appends to
\* 'SELECT ', each entry followed by ', '.
SelectFields(fields) ==
    IF Len(fields) = 0 THEN Built("", << >>)
    ELSE LET f    == Head(fields)
             sub  == IF f.kind = "sub" THEN BuildQuery(f.sub[1], FALSE) ELSE Built("", << >>)
             expr == IF f.kind = "sub" THEN "(" \o sub.query \o ")"
                     ELSE IF f.kind = "raw" THEN f.val
                     ELSE IF \/ Includes(f.val, "(")
                             \/ Includes(f.val, BackTick)
                             \/ Includes(f.val, SingleQuote)
                          THEN f.val
                          ELSE EscapeId(f.val)
             rest == SelectFields(Tail(fields))
         IN IF sub.threw THEN Thrown(sub.error)
            ELSE IF rest.threw THEN rest
            ELSE Built(expr \o " AS " \o EscapeId(f.key) \o ", " \o rest.query, << >>)

\* A head that counts the plain idField whatever distinct is.
SelectClauseCountAll(config, isCount) ==
    IF isCount
    THEN Built("SELECT COUNT(" \o EscapeId(config.idField) \o ") AS count FROM "
                   \o TableList(config.table), << >>)
    ELSE LET sel == SelectFields(config.fields)
             q0  == (IF config.distinct THEN "SELECT DISTINCT " ELSE "SELECT ") \o sel.query
         IN IF sel.threw THEN sel
            ELSE Built(StrTake(q0, Len(q0) - 2) \o " FROM " \o TableList(config.table), << >>)

\* The SELECT ... FROM ... head of the statement.
SelectClause(config, isCount) ==
    IF isCount
    THEN Built("SELECT COUNT(" \o (IF config.distinct THEN "DISTINCT " ELSE "")
                   \o EscapeId(config.idField) \o ") AS count FROM "
                   \o TableList(config.table), << >>)
    ELSE LET sel == SelectFields(config.fields)
             q0  == (IF config.distinct THEN "SELECT DISTINCT " ELSE "SELECT ") \o sel.query
         IN IF sel.threw THEN sel
            ELSE Built(StrTake(q0, Len(q0) - 2) \o " FROM " \o TableList(config.table), << >>)

RECURSIVE JoinsSql(_)
\* joins.forEach: validate the ON clause, then append the JOIN.
JoinsSql(joins) ==
    IF Len(joins) = 0 THEN Built("", << >>)
    ELSE LET j    == Head(joins)
             rest == JoinsSql(Tail(joins))
         IN IF ValidateJoinOnClauseThrows(j.on) THEN Thrown(JoinOnError)
            ELSE IF rest.threw THEN rest
            ELSE Built(" " \o ToUpperCase(j.type) \o " JOIN " \o EscapeId(j.table)
                           \o " ON " \o j.on \o rest.query, << >>)

RECURSIVE InClauses(_, _, _)
\* The clauses pushed for whereIn (keyword " IN ") or whereNotIn (" NOT IN ").
InClauses(entries, keyword, config) ==
    IF Len(entries) = 0 THEN << >>
    ELSE LET e == Head(entries)
         IN (IF Len(e.values) > 0
             THEN << EscapeId(ResolveColumnName(e.key, config)) \o keyword \o "("
                        \o Placeholders(e.values) \o ")" >>
             ELSE << >>) \o InClauses(Tail(entries), keyword, config)

RECURSIVE InValues(_)
\* The values pushed to additionalValues for whereIn or whereNotIn.
InValues(entries) ==
    IF Len(entries) = 0 THEN << >>
    ELSE Head(entries).values \o InValues(Tail(entries))

\* A WHERE assembly that takes whereNotIn before whereIn.
WhereClausesNotInFirst(config) ==
    [i \in 1..Len(config.where) |-> ResolveWhereClause(config.where[i], config)]
        \o InClauses(config.whereNotIn, " NOT IN ", config)
        \o InClauses(config.whereIn, " IN ", config)

\* whereClauses of buildQuery.
WhereClauses(config) ==
    [i \in 1..Len(config.where) |-> ResolveWhereClause(config.where[i], config)]
        \o InClauses(config.whereIn, " IN ", config)
        \o InClauses(config.whereNotIn, " NOT IN ", config)

\* ' WHERE ' and the clauses joined by ' AND ', when there is a clause.
WhereOf(whereClauses) ==
    IF Len(whereClauses) > 0 THEN " WHERE " \o Join(whereClauses, " AND ") ELSE ""

WhereSql(config) == WhereOf(WhereClauses(config))

GroupBySql(config) ==
    IF Len(config.groupBy) > 0
    THEN " GROUP BY " \o Join([i \in 1..Len(config.groupBy) |-> EscapeId(config.groupBy[i])], ", ")
    ELSE ""

HavingSql(config) ==
    IF Len(config.having) > 0 THEN " HAVING " \o Join(config.having, " AND ") ELSE ""

\* if (orderBy): undefined and the empty string are falsy.
OrderByTruthy(config) ==
    /\ config.orderBy.kind # "none"
    /\ ~(config.orderBy.kind = "string" /\ config.orderBy.items[1].column = "")

\* orderByClauses of buildQuery.
OrderByClauses(config) ==
    LET items == config.orderBy.items
    IN IF config.orderBy.kind = "objects"
       THEN [i \in 1..Len(items) |->
                EscapeId(ResolveColumnName(items[i].column, config)) \o " "
                    \o (IF items[i].direction # "" THEN ToUpperCase(items[i].direction)
                        ELSE "ASC")]
       ELSE [i \in 1..Len(items) |-> EscapeId(ResolveOrderByColumn(items[i].column, config))]

\* columnsWithDirection of buildQuery.
ColumnsWithDirection(config) ==
    [i \in 1..Len(config.orderBy.items) |->
        EscapeId(ResolveOrderByColumn(config.orderBy.items[i].column, config)) \o " "
            \o ToUpperCase(config.orderDirection)]

\* The lookahead (?= LIMIT| OFFSET| UNION|$) holds at position e of q.
OrderByLookahead(q, e) ==
    \/ e = Len(q) + 1
    \/ StartsWithAt(q, " LIMIT", e)
    \/ StartsWithAt(q, " OFFSET", e)
    \/ StartsWithAt(q, " UNION", e)

\* The number of characters .+? takes when 'ORDER BY ' stands at position i
\* of q, 0 when the pattern does not match there: the lazy quantifier stops at
\* the first position where the lookahead holds, and . refuses a line break.
OrderByMatchLen(q, i) ==
    LET ends == {k \in 1..(Len(q) - i - 8) : OrderByLookahead(q, i + 9 + k)}
    IN IF ends = {} THEN 0
       ELSE LET k == CHOOSE c \in ends : \A d \in ends : c <= d
            IN IF \A j \in (i + 9)..(i + 8 + k) : CharAt(q, j) # "\n" THEN k ELSE 0

\* The positions of q where /ORDER BY .+?(?= LIMIT| OFFSET| UNION|$)/ matches.
OrderByMatchStarts(q) ==
    {i \in 1..Len(q) : StartsWithAt(q, "ORDER BY ", i) /\ OrderByMatchLen(q, i) > 0}

\* query.replace(/ORDER BY .+?(?= LIMIT| OFFSET| UNION|$)/, replacement): the
\* leftmost match is replaced.
ReplaceOrderBy(q, replacement) ==
    LET starts == OrderByMatchStarts(q)
    IN IF starts = {} THEN q
       ELSE LET i == CHOOSE a \in starts : \A b \in starts : a <= b
            IN StrTake(q, i - 1) \o replacement \o StrFrom(q, i + 9 + OrderByMatchLen(q, i))

\* An orderDirection that is applied to an array of objects as well.
ApplyOrderDirectionToObjects(q1, config) ==
    IF config.orderDirection # "" /\ config.orderBy.kind = "string"
    THEN q1 \o " " \o ToUpperCase(config.orderDirection)
    ELSE IF config.orderDirection # "" /\ config.orderBy.kind \in { "strings", "objects" }
    THEN ReplaceOrderBy(q1, "ORDER BY " \o Join(ColumnsWithDirection(config), ", "))
    ELSE q1

\* The global orderDirection applied to q1, the query that ends with the
\* ORDER BY clause just appended.
ApplyOrderDirection(q1, config) ==
    IF config.orderDirection # "" /\ config.orderBy.kind = "string"
    THEN q1 \o " " \o ToUpperCase(config.orderDirection)
    ELSE IF config.orderDirection # "" /\ config.orderBy.kind = "strings"
    THEN ReplaceOrderBy(q1, "ORDER BY " \o Join(ColumnsWithDirection(config), ", "))
    ELSE q1

\* The clauses appended as ORDER BY when there is one.
AppendOrderByClauses(query, orderByClauses, config) ==
    IF Len(orderByClauses) = 0 THEN query
    ELSE ApplyOrderDirection(query \o " ORDER BY " \o Join(orderByClauses, ", "), config)

\* An ORDER BY step whose default clause takes the shared orderDirection.
AppendOrderByDefaultDirection(query, config) ==
    IF ~OrderByTruthy(config)
    THEN query \o " ORDER BY " \o EscapeId(config.idField) \o " "
             \o (IF config.orderDirection # "" THEN ToUpperCase(config.orderDirection)
                 ELSE "ASC")
    ELSE AppendOrderByClauses(query, OrderByClauses(config), config)

\* The ORDER BY step of buildQuery, applied to the query built so far.
AppendOrderBy(query, config) ==
    IF ~OrderByTruthy(config)
    THEN query \o " ORDER BY " \o EscapeId(config.idField) \o " ASC"
    ELSE AppendOrderByClauses(query, OrderByClauses(config), config)

\* The LIMIT step of buildQuery.
LimitSql(config, isCount) ==
    IF isCount THEN " LIMIT 1"
    ELSE IF Len(config.limit) > 0 /\ config.limit[1] # 0
    THEN " LIMIT " \o NatToString(Max(1, Abs(config.limit[1])))
    ELSE ""

\* The OFFSET step of buildQuery.
OffsetSql(config, isCount) ==
    IF Len(config.offset) > 0 /\ config.offset[1] # 0 /\ ~isCount
    THEN " OFFSET " \o NatToString(Max(0, Abs(config.offset[1])))
    ELSE ""

RECURSIVE UnionSql(_)
\* union.forEach: every entry is compiled in row mode and appended.
UnionSql(union) ==
    IF Len(union) = 0 THEN Built("", << >>)
    ELSE LET u    == BuildQuery(Head(union), FALSE)
             rest == UnionSql(Tail(union))
         IN IF u.threw THEN u
            ELSE IF rest.threw THEN rest
            ELSE Built(" UNION " \o u.query \o rest.query,
                       u.additionalValues \o rest.additionalValues)

\* buildQuery once its SELECT head, its joins and its union entries are
\* compiled: the first of them that threw decides, else the statement is
\* put together.
Assemble(sel, joins, union, config, isCount) ==
    IF sel.threw THEN sel
    ELSE IF joins.threw THEN joins
    ELSE IF union.threw THEN union
    ELSE Built(AppendOrderBy(sel.query \o joins.query \o WhereSql(config)
                                 \o GroupBySql(config) \o HavingSql(config), config)
                   \o LimitSql(config, isCount) \o OffsetSql(config, isCount)
                   \o union.query,
               InValues(config.whereIn) \o InValues(config.whereNotIn)
                   \o union.additionalValues)

\* MySQLORM.buildQuery
BuildQuery(config, isCount) ==
    Assemble(SelectClause(config, isCount), JoinsSql(config.joins),
             UnionSql(config.union), config, isCount)

(***************************************************************************)
(* The configs the caller builds.                                          *)
(***************************************************************************)

ColField(k, v) == [key |-> k, kind |-> "col", val |-> v, sub |-> << >>]

RawField(k, v) == [key |-> k, kind |-> "raw", val |-> v, sub |-> << >>]

SubField(k, c) == [key |-> k, kind |-> "sub", val |-> "", sub |-> << c >>]

NoOrderBy == [kind |-> "none", items |-> << >>]

OrderByString(c) == [kind |-> "string", items |-> << [column |-> c, direction |-> ""] >>]

OrderByStrings(cs) ==
    [kind |-> "strings", items |-> [i \in 1..Len(cs) |-> [column |-> cs[i], direction |-> ""]]]

OrderByObjects(items) == [kind |-> "objects", items |-> items]

\* The config of the test suite: users(user_id, full_name), nothing optional.
BaseConfig ==
    [fields |-> << ColField("id", "user_id"), ColField("name", "full_name") >>,
     idField |-> "user_id",
     table |-> << "users" >>,
     joins |-> << >>,
     where |-> << >>,
     whereIn |-> << >>,
     whereNotIn |-> << >>,
     having |-> << >>,
     limit |-> << >>,
     offset |-> << >>,
     orderBy |-> NoOrderBy,
     orderDirection |-> "",
     groupBy |-> << >>,
     union |-> << >>,
     distinct |-> FALSE]

(***************************************************************************)
(* batchInsertData: statement and bind list.  A row is a sequence of       *)
(* [k, v] pairs in the insertion order of its keys; a key a row does not   *)
(* have reads as undefined.                                                *)
(***************************************************************************)

\* The value null.
NullValue == "<null>"

\* Object.keys(item)
Keys(item) == [i \in 1..Len(item) |-> item[i].k]

\* item[key] !== undefined
HasKey(item, key) == \E i \in 1..Len(item) : item[i].k = key

\* item[key], for a key the item has.
ValueOf(item, key) == item[CHOOSE i \in 1..Len(item) : item[i].k = key].v

RECURSIVE ItemValuesSkippingNull(_, _)
\* keys.forEach with the test value != null in place of value !== undefined.
ItemValuesSkippingNull(item, keys) ==
    IF Len(keys) = 0 THEN << >>
    ELSE (IF HasKey(item, Head(keys)) /\ ValueOf(item, Head(keys)) # NullValue
          THEN << ValueOf(item, Head(keys)) >> ELSE << >>)
             \o ItemValuesSkippingNull(item, Tail(keys))

RECURSIVE ItemValues(_, _)
\* keys.forEach of batchInsertData for one item: the values pushed.
ItemValues(item, keys) ==
    IF Len(keys) = 0 THEN << >>
    ELSE (IF HasKey(item, Head(keys)) THEN << ValueOf(item, Head(keys)) >> ELSE << >>)
             \o ItemValues(item, Tail(keys))

RECURSIVE BatchValues(_, _)
\* allValues of batchInsertData.
BatchValues(data, keys) ==
    IF Len(data) = 0 THEN << >>
    ELSE ItemValues(Head(data), keys) \o BatchValues(Tail(data), keys)

\* query of batchInsertData.
BatchInsertSql(table, data) ==
    LET keys  == Keys(data[1])
        tuple == "(" \o Placeholders(keys) \o ")"
    IN "INSERT INTO " \o EscapeId(table) \o " ("
           \o Join([i \in 1..Len(keys) |-> EscapeId(keys[i])], ", ")
           \o ") VALUES " \o Join([i \in 1..Len(data) |-> tuple], ", ")

(***************************************************************************)
(* Inputs.                                                                 *)
(***************************************************************************)

\* Most rows a caller passes to one batchInsertData call.
MaxBatchRows == 2

\* where fragments: harmless ones, and one per pattern of the documented
\* denylist, in several letter cases.
WhereFragments ==
    { "name = ?", "updated_at > ?", "id IN (1, 2)",
      "user_id = 1; DROP TABLE users", "id = 1 -- x", "id = 1 /* x */ OR 1 = 1",
      "id = 1 UNION SELECT 1", "id = 1 OR drop", "id = 1 OR Delete FROM t",
      "id = 1 OR INSERT INTO t", "id = 1 OR update t", "id = 1 OR EXEC x",
      "id = 1 OR execute x", "id = 1 OR SLEEP(5)", "id = 1 OR benchmark(9, 1)",
      "name = LOAD_FILE(1)", "id = 1 INTO OUTFILE 1" }

\* join.on texts: harmless ones (two of them contain a keyword inside a longer
\* word), and one per pattern.
OnTexts ==
    { "users.role_id = roles.role_id", "users.updated_at = roles.updated_at",
      "users.reunion = roles.executed",
      "users.role_id = roles.role_id; DROP TABLE users; --",
      "users.id = roles.id -- x", "users.id = roles.id /* x */",
      "users.role_id = roles.role_id UNION SELECT * FROM passwords",
      "users.id = roles.id union select 1", "users.id = roles.id OR Drop",
      "users.id = roles.id OR 1=1 DELETE FROM users", "users.id = roles.id OR insert",
      "users.id = roles.id OR UPDATE", "users.id = roles.id OR exec(1)",
      "users.id = roles.id OR EXECUTE",
      "users.role_id = roles.role_id AND SLEEP(5)",
      "users.id = roles.id AND benchmark(9, 1)",
      "users.id = LOAD_FILE(1)", "users.id = roles.id INTO OUTFILE 1" }

HavingFragments ==
    { "COUNT(*) > ?", "SUM(amount) > 100; DROP TABLE orders", "SUM(amount) > SLEEP(1)" }

RawExprs == { "COUNT(*)", "1; DROP TABLE users; --", "(SELECT 1 UNION SELECT 2)" }

OrderBys ==
    { NoOrderBy, OrderByString("name"), OrderByString("name DESC"),
      OrderByStrings(<< "name", "id" >>), OrderByStrings(<< >>),
      OrderByObjects(<< [column |-> "name", direction |-> "DESC"],
                        [column |-> "id", direction |-> ""] >>),
      OrderByStrings(<< "name DESC", "id" >>),
      OrderByObjects(<< [column |-> "created_at", direction |-> "asc"] >>) }

OrderDirections == { "", "DESC", "ASC" }

\* limit / offset pairs: the two that go with every orderBy, and two more.
Pagings == { [limit |-> << >>, offset |-> << >>], [limit |-> << 50 >>, offset |-> << 10 >>] }

MorePagings ==
    { [limit |-> << 0 >>, offset |-> << >>], [limit |-> << 0 - 5 >>, offset |-> << 0 - 3 >>] }

JoinOn(o) == [type |-> "INNER", table |-> "roles", on |-> o]

WhereIn(k, vs) == [key |-> k, values |-> vs]

Configs ==
    { [BaseConfig EXCEPT !.where = << w >>] : w \in WhereFragments }
    \cup { [BaseConfig EXCEPT !.where = << "name = ?", "id = 1; DROP TABLE t" >>] }
    \cup { [BaseConfig EXCEPT !.joins = << JoinOn(o) >>] : o \in OnTexts }
    \cup { [BaseConfig EXCEPT !.joins = << JoinOn("a.x = b.x"), JoinOn("a.y = b.y OR DROP") >>] }
    \cup { [BaseConfig EXCEPT !.groupBy = << "role" >>, !.having = << h >>] :
              h \in HavingFragments }
    \cup { [BaseConfig EXCEPT !.fields = << ColField("id", "user_id"), RawField("n", r) >>] :
              r \in RawExprs }
    \cup { [BaseConfig EXCEPT !.orderBy = o, !.orderDirection = d, !.limit = p.limit,
                              !.offset = p.offset, !.distinct = distinct] :
              o \in OrderBys, d \in OrderDirections, p \in Pagings, distinct \in BOOLEAN }
    \cup { [BaseConfig EXCEPT !.distinct = TRUE, !.table = << "users", "roles" >>,
                              !.joins = << JoinOn("users.role_id = roles.role_id") >>,
                              !.fields = << ColField("id", "user_id"), RawField("n", "COUNT(*)"),
                                            SubField("posts", [BaseConfig EXCEPT
                                                                  !.table = << "posts" >>]) >>,
                              !.union = u] :
              u \in { << >>, << [BaseConfig EXCEPT !.table = << "admins" >>] >> } }
    \cup { [BaseConfig EXCEPT !.limit = p.limit, !.offset = p.offset] : p \in MorePagings }
    \cup { [BaseConfig EXCEPT !.fields = << ColField("id", "user_id"),
                                            ColField("log", "login_name"),
                                            ColField("adm", "admin_flag") >>,
                              !.where = << "id = ?", w >>] :
              w \in { "login REGEXP ?", "admins_only", "active", "MATCH(bio) AGAINST (?)" } }
    \cup { [BaseConfig EXCEPT !.where = << "name = ?" >>, !.groupBy = << "role" >>,
                              !.having = << "COUNT(*) > ?" >>, !.orderDirection = "DESC",
                              !.limit = << 50 >>, !.offset = << 10 >>,
                              !.union = << [BaseConfig EXCEPT !.table = << "admins" >>] >>] }
    \cup { [BaseConfig EXCEPT !.where = w, !.whereIn = in, !.whereNotIn = notIn,
                              !.groupBy = IF h = << >> THEN << >> ELSE << "role" >>,
                              !.having = h, !.distinct = d] :
              w \in { << >>, << "name LIKE ?" >>, << "id>=?", "updated_at > ?" >>,
                      << "id = ? OR id IS NULL", "name  not in (?)" >> },
              in \in { << >>, << WhereIn("name", << "a", "b" >>) >>,
                       << WhereIn("id", << >>), WhereIn("role", << "x" >>) >> },
              notIn \in { << >>, << WhereIn("name", << "z" >>) >>,
                          << WhereIn("role", << >>) >> },
              h \in { << >>, << "COUNT(*) > ?" >> },
              d \in BOOLEAN }
    \cup { [BaseConfig EXCEPT !.whereIn = << WhereIn("name", << "a", "b" >>) >>,
                              !.whereNotIn = << WhereIn("role", << "x" >>) >>,
                              !.distinct = TRUE],
           [BaseConfig EXCEPT !.fields =
               << ColField("id", "user_id"),
                  SubField("posts", [BaseConfig EXCEPT !.table = << "posts" >>,
                                        !.joins = << JoinOn("posts.id = tags.id; DROP") >>]) >>],
           [BaseConfig EXCEPT !.fields =
               << SubField("posts", [BaseConfig EXCEPT !.table = << "posts" >>]),
                  ColField("name", "full_name") >>,
               !.joins = << JoinOn("users.role_id = roles.role_id") >>,
               !.orderBy = OrderByStrings(<< "name" >>), !.orderDirection = "DESC"],
           [BaseConfig EXCEPT !.union = << [BaseConfig EXCEPT !.table = << "admins" >>] >>],
           [BaseConfig EXCEPT !.whereIn = << WhereIn("name", << "a" >>) >>,
                              !.union = << [BaseConfig EXCEPT
                                               !.table = << "admins" >>,
                                               !.whereIn = << WhereIn("role", << "x", "y" >>) >>,
                                               !.whereNotIn = << WhereIn("name", << "z" >>) >>] >>],
           [BaseConfig EXCEPT !.fields =
               << ColField("id", "user_id"),
                  SubField("posts", [BaseConfig EXCEPT
                                        !.table = << "posts" >>,
                                        !.whereIn = << WhereIn("name", << "p", "q" >>) >>]) >>,
               !.whereIn = << WhereIn("role", << "x" >>) >>],
           [BaseConfig EXCEPT !.fields =
               << ColField("name", "full_name"),
                  RawField("rn", "ROW_NUMBER() OVER (ORDER BY user_id)") >>,
               !.orderBy = OrderByStrings(<< "name", "id" >>), !.orderDirection = "DESC",
               !.limit = << 50 >>] }

\* The positional values a caller passes.
CallerValues == { << >>, << "v1" >> }

Row(a, b) == << [k |-> "userName", v |-> a], [k |-> "userEmail", v |-> b] >>

\* Rows for batchInsertData: two full rows (one holding null), a row with its
\* keys in the other order, a row lacking a key, a row with a third key.
BatchRows ==
    { Row("User 1", "u1@x.io"), Row("User 2", NullValue),
      << [k |-> "userEmail", v |-> "u3@x.io"], [k |-> "userName", v |-> "User 3"] >>,
      << [k |-> "userName", v |-> "User 4"] >>,
      << [k |-> "userName", v |-> "User 5"], [k |-> "userEmail", v |-> "u5@x.io"],
         [k |-> "userAge", v |-> "5"] >> }

RECURSIVE SeqsUpTo(_, _)
\* The sequences over S of length at most n.
SeqsUpTo(S, n) ==
    IF n = 0 THEN { << >> }
    ELSE SeqsUpTo(S, n - 1) \cup { Append(q, x) : q \in { r \in SeqsUpTo(S, n - 1) : Len(r) = n - 1 }, x \in S }

BatchInputs == SeqsUpTo(BatchRows, MaxBatchRows)

\* What the driver answers to one statement.
DriverError == "ER_NO_SUCH_TABLE: Table test_db.users does not exist"

ReplyRows(rows) == [ok |-> TRUE, rows |-> rows, insertId |-> 0, affectedRows |-> 0, message |-> ""]

ReplyHeader(id, n) == [ok |-> TRUE, rows |-> << >>, insertId |-> id, affectedRows |-> n, message |-> ""]

ReplyError == [ok |-> FALSE, rows |-> << >>, insertId |-> 0, affectedRows |-> 0, message |-> DriverError]

RowReplies == { ReplyRows(<< >>), ReplyRows(<< "row1", "row2" >>), ReplyError }

\* The answers to the row statement and the count statement of one getData.
GetDataReplies ==
    { << ReplyRows(<< "row1", "row2" >>), ReplyRows(<< [count |-> 7] >>) >>,
      << ReplyRows(<< >>), ReplyRows(<< [count |-> 0] >>) >>,
      << ReplyRows(<< "row1", "row2" >>), ReplyRows(<< >>) >>,
      << ReplyError, ReplyRows(<< [count |-> 7] >>) >>,
      << ReplyRows(<< "row1", "row2" >>), ReplyError >> }

InsertReplies == { ReplyHeader(100, 2), ReplyHeader(200, 1), ReplyError }

(***************************************************************************)
(* createTable.  A CreateTableConfig is a record                           *)
(*   table, columns (sequence of [name, type, options]), primaryKey        *)
(*   (sequence of names), indexes, foreignKeys, tableOptions, dropIfExists *)
(* where options and tableOptions are << >> (absent) or a one-element      *)
(* sequence, an absent string option is "" and an absent number is 0.      *)
(***************************************************************************)

\* escape of mysql2, as the mock of the test suite defines it.
Escape(str) == SingleQuote \o str \o SingleQuote

\* keys.map(escapeId).join(', ')
EscapedList(names) == Join([i \in 1..Len(names) |-> EscapeId(names[i])], ", ")

\* The type of one column: ENUM(...) or the upper-cased type and its length.
ColumnTypeSql(column) ==
    IF /\ ToUpperCase(column.type) = "ENUM"
       /\ Len(column.options) > 0
       /\ Len(column.options[1].enum) > 0
    THEN "ENUM(" \o Join([i \in 1..Len(column.options[1].enum) |->
                             Escape(column.options[1].enum[i])], ", ") \o ")"
    ELSE ToUpperCase(column.type)
             \o (IF Len(column.options) > 0 /\ column.options[1].length # 0
                 THEN "(" \o NatToString(column.options[1].length) \o ")" ELSE "")

\* What createTable appends for the options o of a column of the given type.
\* The text types are compared in upper case, which for these names decides
\* as column.type.toLowerCase() does.
ColumnOptionsSql(type, o) ==
    (IF o.unsigned THEN " UNSIGNED" ELSE "")
        \o (IF o.zerofill THEN " ZEROFILL" ELSE "")
        \o (IF ToUpperCase(type) \in {"VARCHAR", "CHAR", "TEXT", "TINYTEXT", "MEDIUMTEXT", "LONGTEXT"}
            THEN (IF o.charset # "" THEN " CHARACTER SET " \o o.charset ELSE "")
                     \o (IF o.collate # "" THEN " COLLATE " \o o.collate ELSE "")
            ELSE "")
        \o (IF o.nullable THEN " NULL" ELSE " NOT NULL")
        \o (IF Len(o.default) = 0 THEN ""
            ELSE IF o.default[1] = "CURRENT_TIMESTAMP" THEN " DEFAULT CURRENT_TIMESTAMP"
            ELSE " DEFAULT " \o Escape(o.default[1]))
        \o (IF o.autoIncrement THEN " AUTO_INCREMENT" ELSE "")
        \o (IF o.onUpdate = "CURRENT_TIMESTAMP" THEN " ON UPDATE CURRENT_TIMESTAMP" ELSE "")
        \o (IF o.comment # "" THEN " COMMENT " \o Escape(o.comment) ELSE "")

\* columns.forEach of createTable: one column definition.
ColumnSql(column) ==
    EscapeId(column.name) \o " " \o ColumnTypeSql(column)
        \o (IF Len(column.options) > 0 THEN ColumnOptionsSql(column.type, column.options[1])
            ELSE "")

\* indexes.forEach of createTable: one index.
IndexSql(index) ==
    IF index.type = "UNIQUE" THEN ", UNIQUE KEY (" \o EscapedList(index.columns) \o ")"
    ELSE ", " \o index.type \o " INDEX (" \o EscapedList(index.columns) \o ")"

\* foreignKeys.forEach of createTable: one foreign key; the reference is
\* interpolated as it was given.
ForeignKeySql(fk) ==
    ", FOREIGN KEY (" \o EscapeId(fk.column) \o ") REFERENCES " \o fk.reference
        \o (IF fk.onDelete # "" THEN " ON DELETE " \o fk.onDelete ELSE "")
        \o (IF fk.onUpdate # "" THEN " ON UPDATE " \o fk.onUpdate ELSE "")

\* The table options of createTable: t is tableOptions, charset defaulting to
\* utf8mb4 when the key is absent (<< >>).
TableOptionsSql(t) ==
    " ENGINE=" \o (IF t.engine # "" THEN t.engine ELSE "InnoDB")
        \o (IF t.autoIncrement # 0 THEN " AUTO_INCREMENT=" \o NatToString(t.autoIncrement) ELSE "")
        \o (IF t.rowFormat # "" THEN " ROW_FORMAT=" \o t.rowFormat ELSE "")
        \o (IF Len(t.charset) = 0 THEN " DEFAULT CHARACTER SET utf8mb4"
            ELSE IF t.charset[1] # "" THEN " DEFAULT CHARACTER SET " \o t.charset[1]
            ELSE "")
        \o (IF t.collate # "" THEN " COLLATE " \o t.collate ELSE "")
        \o (IF t.comment # "" THEN " COMMENT=" \o Escape(t.comment) ELSE "")

\* The CREATE TABLE statement createTable builds.
CreateTableSql(config) ==
    "CREATE TABLE " \o EscapeId(config.table) \o " ("
        \o Join([i \in 1..Len(config.columns) |-> ColumnSql(config.columns[i])], ", ")
        \o ", PRIMARY KEY (" \o EscapedList(config.primaryKey) \o ")"
        \o Join([i \in 1..Len(config.indexes) |-> IndexSql(config.indexes[i])], "")
        \o Join([i \in 1..Len(config.foreignKeys) |-> ForeignKeySql(config.foreignKeys[i])], "")
        \o ")"
        \o (IF Len(config.tableOptions) > 0 THEN TableOptionsSql(config.tableOptions[1])
            ELSE " ENGINE=InnoDB DEFAULT CHARACTER SET utf8mb4")
        \o ";"

\* An options object of a column with every key absent.
ColumnOptions ==
    [length |-> 0, unsigned |-> FALSE, zerofill |-> FALSE, charset |-> "", collate |-> "",
     nullable |-> TRUE, default |-> << >>, autoIncrement |-> FALSE, onUpdate |-> "",
     comment |-> "", enum |-> << >>]

Column(name, type, options) == [name |-> name, type |-> type, options |-> options]

\* A tableOptions object with every key absent.
TableOptions ==
    [engine |-> "", autoIncrement |-> 0, rowFormat |-> "", charset |-> << >>,
     collate |-> "", comment |-> ""]

ForeignKey(column, reference) ==
    [column |-> column, reference |-> reference, onDelete |-> "", onUpdate |-> ""]

BaseTable ==
    [table |-> "test_table",
     columns |-> << Column("id", "int", << [ColumnOptions EXCEPT !.unsigned = TRUE,
                                               !.nullable = FALSE, !.autoIncrement = TRUE] >>),
                    Column("name", "varchar", << [ColumnOptions EXCEPT !.length = 255] >>) >>,
     primaryKey |-> << "id" >>,
     indexes |-> << >>,
     foreignKeys |-> << >>,
     tableOptions |-> << >>,
     dropIfExists |-> FALSE]

\* The table definitions a caller passes to createTable.
CreateTableConfigs ==
    { BaseTable,
      [BaseTable EXCEPT !.dropIfExists = TRUE,
                        !.indexes = << [type |-> "UNIQUE", columns |-> << "name" >>],
                                       [type |-> "", columns |-> << "id", "name" >>] >>],
      [BaseTable EXCEPT !.columns =
           << Column("id", "INT", << >>),
              Column("status", "enum", << [ColumnOptions EXCEPT !.enum = << "on", "off" >>,
                                              !.default = << "on" >>, !.comment = "state"] >>),
              Column("seen", "timestamp", << [ColumnOptions EXCEPT
                                                 !.default = << "CURRENT_TIMESTAMP" >>,
                                                 !.onUpdate = "CURRENT_TIMESTAMP"] >>),
              Column("code", "int", << [ColumnOptions EXCEPT !.zerofill = TRUE,
                                           !.charset = "latin1"] >>) >>,
           !.primaryKey = << "id", "status" >>],
      [BaseTable EXCEPT !.foreignKeys =
           << [ForeignKey("user_id", "users(id)") EXCEPT !.onDelete = "CASCADE",
                                                         !.onUpdate = "SET NULL"] >>],
      [BaseTable EXCEPT !.foreignKeys =
           << ForeignKey("user_id", "users(id); DROP TABLE test; --") >>],
      [BaseTable EXCEPT !.foreignKeys = << ForeignKey("user_id", "users") >>,
                        !.dropIfExists = TRUE],
      [BaseTable EXCEPT !.columns =
           << Column("id", "int", << >>),
              Column("name", "varchar",
                     << [ColumnOptions EXCEPT !.length = 255,
                            !.charset = "utf8" \o SingleQuote \o "; DROP TABLE test; --"] >>) >>],
      [BaseTable EXCEPT !.columns =
           << Column("id", "int", << >>),
              Column("name", "text", << [ColumnOptions EXCEPT !.charset = "utf8mb4",
                                            !.collate = "utf8mb4_unicode_ci"] >>) >>,
           !.tableOptions = << [TableOptions EXCEPT !.engine = "MyISAM", !.autoIncrement = 100,
                                   !.rowFormat = "DYNAMIC", !.charset = << "latin1" >>,
                                   !.collate = "latin1_bin", !.comment = "t"] >>],
      [BaseTable EXCEPT !.tableOptions =
           << [TableOptions EXCEPT !.engine = "InnoDB; DROP TABLE test"] >>],
      [BaseTable EXCEPT !.tableOptions =
           << [TableOptions EXCEPT !.charset = << "utf8; DROP TABLE test" >>] >>,
           !.dropIfExists = TRUE] }

(***************************************************************************)
(* State.                                                                  *)
(***************************************************************************)
VARIABLES
    caller,     \* what the calling program does: "queries" on cfg, a "batch" insert of data,
                \* "createTable" of cfg, "writes" of data, a "transaction", or "logger" calls
    isDev,      \* MySQLORM.isDev, fixed by the constructor: NODE_ENV is 'development'
    cfg,        \* the configuration object the caller holds and passes by reference:
                \* a QueryConfig, or a CreateTableConfig when caller = "createTable"
    data,       \* the row array the caller passes to batchInsertData, or the record it
                \* passes to insertData, updateData and deleteData
    pc,         \* "idle", or the operation that is awaiting the pool
    args,       \* the arguments of the latest call
    poolCalls,  \* the statements the latest call handed to pool.query, in order
    replies,    \* the driver's answers to poolCalls
    logCalls,   \* the query logger calls of the latest call, in order
    outcome,    \* how the promise of the latest call stands
    tx,         \* the Transaction object of withTransaction and what its connection was asked
    logger      \* the QueryLogger object and the lines it wrote to its file

vars == << caller, isDev, cfg, data, pc, args, poolCalls, replies, logCalls, outcome, tx, logger >>

NoArgs == [values |-> << >>, skipCount |-> FALSE, table |-> "", data |-> << >>]

NoValue == [type |-> "undefined"]

Pending(op) == [op |-> op, status |-> "pending", message |-> "", value |-> NoValue]

Resolved(op, v) == [op |-> op, status |-> "resolved", message |-> "", value |-> v]

Rejected(op, msg) == [op |-> op, status |-> "rejected", message |-> msg, value |-> NoValue]

Statement(sql, values) == [sql |-> sql, values |-> values]

LogQuery(sql, values) == [kind |-> "logQuery", sql |-> sql, values |-> values, error |-> ""]

LogError(sql, error, values) == [kind |-> "logError", sql |-> sql, values |-> values, error |-> error]

\* The message of the error an operation throws after a driver failure.
Wrapped(prefix, message) ==
    prefix \o ": " \o (IF isDev THEN message ELSE "Database error occurred")

\* A Transaction as its constructor leaves it, nothing asked of the pool yet.
NoTransaction ==
    [isActive |-> FALSE, connection |-> FALSE, calls |-> << >>, failed |-> {},
     callback |-> [status |-> "none", message |-> "", value |-> NoValue], error |-> "",
     acquired |-> 0, begins |-> << >>]

\* The most calls of begin made on one Transaction object.
MaxBegins == 2

\* The most calls of commit and rollback that reach the connection of one
\* Transaction object.
MaxEnds == 2

\* How the callback given to withTransaction settles.
CallbackResults ==
    { [status |-> "resolved", message |-> "", value |-> [type |-> "string", s |-> "success"]],
      [status |-> "resolved", message |-> "", value |-> NoValue],
      [status |-> "rejected", message |-> "Failed to insert data: Database error occurred",
       value |-> NoValue] }

\* Most calls of log and updateConfig on the logger in one run.
MaxLogCalls == 2

\* slowQueryThreshold of the default configuration, in milliseconds.
SlowQueryThreshold == 1000

\* A QueryLogger as its constructor leaves it for a configuration: the
\* stream is opened when the logger is enabled and logs to a file.
NewQueryLogger(enabled, logToFile) ==
    [enabled |-> enabled, logToFile |-> logToFile,
     slowQueryThreshold |-> SlowQueryThreshold,
     logStream |-> enabled /\ logToFile, file |-> << >>, calls |-> 0,
     opened |-> IF enabled /\ logToFile THEN 1 ELSE 0, ended |-> 0, updates |-> 0]

\* The parameter values handed to the logger, and the times of its clock.
LoggedValues == { << >>, << "v1" >>, << "v2" >>, << "v1", NullValue >> }

Timestamps == { "2024-01-01T00:00:00.000Z", "2024-01-01T00:00:01.500Z" }

Init ==
    /\ isDev \in BOOLEAN
    /\ \/ caller = "queries" /\ cfg \in Configs /\ data = << >>
       \/ caller = "batch" /\ cfg = BaseConfig /\ data \in BatchInputs
       \/ caller = "createTable" /\ cfg \in CreateTableConfigs /\ data = << >>
       \/ caller = "writes" /\ cfg = BaseConfig /\ data \in BatchRows
       \/ caller = "transaction" /\ cfg = BaseConfig /\ data = << >>
       \/ caller = "createTransaction" /\ cfg = BaseConfig /\ data = << >>
       \/ caller = "logger" /\ cfg = BaseConfig /\ data = << >>
    /\ tx = NoTransaction
    /\ \E enabled \in BOOLEAN, logToFile \in BOOLEAN :
           /\ caller # "logger" => (~enabled /\ logToFile)
           /\ logger = NewQueryLogger(enabled, logToFile)
    /\ pc = "idle"
    /\ args = NoArgs
    /\ poolCalls = << >>
    /\ replies = << >>
    /\ logCalls = << >>
    /\ outcome = [op |-> "none", status |-> "none", message |-> "", value |-> NoValue]

(***************************************************************************)
(* getData                                                                 *)
(***************************************************************************)

\* The catch block of getData: it compiles the row query again (queryResult),
\* which throws again when the compilation is what failed, then logs and
\* wraps.
GetDataCatch(queryResult, values, message) ==
    /\ logCalls' = IF queryResult.threw THEN << >>
                   ELSE << LogError(queryResult.query, message,
                                    values \o queryResult.additionalValues) >>
    /\ outcome' = Rejected("getData",
                           IF queryResult.threw THEN queryResult.error
                           ELSE Wrapped("Failed to fetch data", message))

\* The try block of getData up to its await, for any values and options of
\* the caller: the two compiled statements are handed to the pool, row query
\* first.  The signature has no third parameter: an options object the caller
\* passes is not read.
GetDataTry(queryResult, countQueryResult, recompiled) ==
    \E values \in CallerValues, skipCount \in BOOLEAN :
        /\ IF queryResult.threw \/ countQueryResult.threw
           THEN /\ pc' = "idle"
                /\ poolCalls' = << >>
                /\ GetDataCatch(recompiled, values,
                                IF queryResult.threw THEN queryResult.error
                                ELSE countQueryResult.error)
           ELSE /\ pc' = "getData"
                /\ poolCalls' =
                       << Statement(queryResult.query,
                                    values \o queryResult.additionalValues),
                          Statement(countQueryResult.query,
                                    values \o countQueryResult.additionalValues) >>
                /\ logCalls' = << >>
                /\ outcome' = Pending("getData")
        /\ args' = [NoArgs EXCEPT !.values = values, !.skipCount = skipCount]

\* getData up to its await.
GetDataCall ==
    /\ caller = "queries"
    /\ pc = "idle"
    /\ GetDataTry(BuildQuery(cfg, FALSE), BuildQuery(cfg, TRUE), BuildQuery(cfg, FALSE))
    /\ replies' = << >>
    /\ UNCHANGED << caller, isDev, cfg, data, tx, logger >>

\* getData after Promise.all settles.
GetDataSettle(rowsResult, countRowsResult) ==
    /\ pc = "getData"
    /\ pc' = "idle"
    /\ replies' = << rowsResult, countRowsResult >>
    /\ IF rowsResult.ok /\ countRowsResult.ok
       THEN /\ logCalls' = << LogQuery(poolCalls[1].sql, poolCalls[1].values) >>
            /\ outcome' = Resolved("getData",
                   [type |-> "object",
                    rows |-> rowsResult.rows,
                    count |-> IF Len(countRowsResult.rows) > 0
                              THEN countRowsResult.rows[1].count ELSE 0])
       ELSE GetDataCatch(BuildQuery(cfg, FALSE), args.values,
                         IF rowsResult.ok THEN countRowsResult.message
                         ELSE rowsResult.message)
    /\ UNCHANGED << caller, isDev, cfg, data, tx, logger, args, poolCalls >>

(***************************************************************************)
(* getFirst                                                                *)
(***************************************************************************)

\* getFirst from the compilation to its await, for any values of the caller:
\* the compilation stands outside the try block, so what it throws is what
\* the caller gets.
GetFirstTry(queryResult) ==
    \E values \in CallerValues :
        /\ IF queryResult.threw
           THEN /\ pc' = "idle"
                /\ poolCalls' = << >>
                /\ outcome' = Rejected("getFirst", queryResult.error)
           ELSE /\ pc' = "getFirst"
                /\ poolCalls' = << Statement(queryResult.query,
                                             values \o queryResult.additionalValues) >>
                /\ outcome' = Pending("getFirst")
        /\ args' = [NoArgs EXCEPT !.values = values]

\* getFirst up to its await: it writes limit = 1 into the object it was
\* given, then compiles that object.
GetFirstCall ==
    /\ caller = "queries"
    /\ pc = "idle"
    /\ cfg' = [cfg EXCEPT !.limit = << 1 >>]
    /\ GetFirstTry(BuildQuery([cfg EXCEPT !.limit = << 1 >>], FALSE))
    /\ replies' = << >>
    /\ logCalls' = << >>
    /\ UNCHANGED << caller, isDev, data, tx, logger >>

\* getFirst after pool.query settles.
GetFirstSettle(reply) ==
    /\ pc = "getFirst"
    /\ pc' = "idle"
    /\ replies' = << reply >>
    /\ IF reply.ok
       THEN /\ logCalls' = << LogQuery(poolCalls[1].sql, poolCalls[1].values) >>
            /\ outcome' = Resolved("getFirst",
                   IF Len(reply.rows) > 0 THEN [type |-> "row", row |-> reply.rows[1]]
                   ELSE [type |-> "null"])
       ELSE /\ logCalls' = << LogError(poolCalls[1].sql, reply.message, poolCalls[1].values) >>
            /\ outcome' = Rejected("getFirst", Wrapped("Failed to fetch data", reply.message))
    /\ UNCHANGED << caller, isDev, cfg, data, tx, logger, args, poolCalls >>

(***************************************************************************)
(* batchInsertData (no transaction: the statement goes to the pool)        *)
(***************************************************************************)

\* batchInsertData up to its await.
BatchInsertCall(table) ==
    /\ caller = "batch"
    /\ pc = "idle"
    /\ args' = [NoArgs EXCEPT !.table = table, !.data = data]
    /\ replies' = << >>
    /\ logCalls' = << >>
    /\ IF Len(data) = 0
       THEN /\ pc' = "idle"
            /\ poolCalls' = << >>
            /\ outcome' = Resolved("batchInsertData", [type |-> "array", items |-> << >>])
       ELSE /\ pc' = "batchInsertData"
            /\ poolCalls' = << Statement(BatchInsertSql(table, data),
                                         BatchValues(data, Keys(data[1]))) >>
            /\ outcome' = Pending("batchInsertData")
    /\ UNCHANGED << caller, isDev, cfg, data, tx, logger >>

\* insertIds of batchInsertData: firstId + i for every row.
InsertIds(firstId, n) == [i \in 1..n |-> firstId + i - 1]

\* batchInsertData after connection.query settles.
BatchInsertSettle(result) ==
    /\ pc = "batchInsertData"
    /\ pc' = "idle"
    /\ replies' = << result >>
    /\ IF result.ok
       THEN /\ logCalls' = << LogQuery(poolCalls[1].sql, poolCalls[1].values) >>
            /\ outcome' = Resolved("batchInsertData",
                   [type |-> "array", items |-> InsertIds(result.insertId, Len(args.data))])
       ELSE /\ logCalls' = << LogError(poolCalls[1].sql, result.message, poolCalls[1].values) >>
            /\ outcome' = Rejected("batchInsertData",
                                   Wrapped("Failed to batch insert data", result.message))
    /\ UNCHANGED << caller, isDev, cfg, data, tx, logger, args, poolCalls >>

(***************************************************************************)
(* createTable                                                             *)
(***************************************************************************)

\* The message of the error createTable throws: its catch block wraps every
\* error the same way, whatever isDev is.
CreateTableError(message) == "Failed to create table: " \o message

\* createTable up to its first await: the DROP TABLE statement when
\* dropIfExists is set, the CREATE TABLE statement otherwise.  No query
\* logger method is called by createTable.
CreateTableCall ==
    /\ caller = "createTable"
    /\ pc = "idle"
    /\ args' = NoArgs
    /\ replies' = << >>
    /\ logCalls' = << >>
    /\ outcome' = Pending("createTable")
    /\ IF cfg.dropIfExists
       THEN /\ pc' = "createTable.drop"
            /\ poolCalls' = << Statement("DROP TABLE IF EXISTS " \o EscapeId(cfg.table), << >>) >>
       ELSE /\ pc' = "createTable"
            /\ poolCalls' = << Statement(CreateTableSql(cfg), << >>) >>
    /\ UNCHANGED << caller, isDev, cfg, data, tx, logger >>

\* createTable after the DROP TABLE statement settles: it goes on to build
\* and send the CREATE TABLE statement, or rejects from its catch block.
CreateTableDropSettle(reply) ==
    /\ pc = "createTable.drop"
    /\ replies' = << reply >>
    /\ IF reply.ok
       THEN /\ pc' = "createTable"
            /\ poolCalls' = Append(poolCalls, Statement(CreateTableSql(cfg), << >>))
            /\ UNCHANGED outcome
       ELSE /\ pc' = "idle"
            /\ outcome' = Rejected("createTable", CreateTableError(reply.message))
            /\ UNCHANGED poolCalls
    /\ UNCHANGED << caller, isDev, cfg, data, args, logCalls, tx, logger >>

\* createTable after the CREATE TABLE statement settles.
CreateTableSettle(reply) ==
    /\ pc = "createTable"
    /\ pc' = "idle"
    /\ replies' = Append(replies, reply)
    /\ outcome' = IF reply.ok THEN Resolved("createTable", NoValue)
                  ELSE Rejected("createTable", CreateTableError(reply.message))
    /\ UNCHANGED << caller, isDev, cfg, data, args, poolCalls, logCalls, tx, logger >>

(***************************************************************************)
(* insertData, updateData, deleteData, rawQuery (no transaction: the       *)
(* statement goes to the pool).  data is the record the caller passes, as  *)
(* a sequence of [k, v] pairs in the order of its keys.                    *)
(***************************************************************************)

\* insertData up to its await.
InsertDataCall(table) ==
    /\ caller = "writes"
    /\ pc = "idle"
    /\ pc' = "insertData"
    /\ args' = [NoArgs EXCEPT !.table = table, !.data = data]
    /\ poolCalls' = << Statement("INSERT INTO " \o EscapeId(table) \o " ("
                                    \o EscapedList(Keys(data)) \o ") VALUES ("
                                    \o Placeholders(Keys(data)) \o ")",
                                 [i \in 1..Len(data) |-> data[i].v]) >>
    /\ replies' = << >>
    /\ logCalls' = << >>
    /\ outcome' = Pending("insertData")
    /\ UNCHANGED << caller, isDev, cfg, data, tx, logger >>

\* insertData after connection.query settles.
InsertDataSettle(result) ==
    /\ pc = "insertData"
    /\ pc' = "idle"
    /\ replies' = << result >>
    /\ IF result.ok
       THEN /\ logCalls' = << LogQuery(poolCalls[1].sql, poolCalls[1].values) >>
            /\ outcome' = Resolved("insertData", [type |-> "number", n |-> result.insertId])
       ELSE /\ logCalls' = << LogError(poolCalls[1].sql, result.message, poolCalls[1].values) >>
            /\ outcome' = Rejected("insertData", Wrapped("Failed to insert data", result.message))
    /\ UNCHANGED << caller, isDev, cfg, data, args, poolCalls, tx, logger >>

\* updateData up to its await, for the config {table, data, where, values}.
UpdateDataCall(table, where) ==
    \E values \in CallerValues :
        /\ caller = "writes"
        /\ pc = "idle"
        /\ pc' = "updateData"
        /\ args' = [NoArgs EXCEPT !.table = table, !.data = data, !.values = values]
        /\ poolCalls' = << Statement("UPDATE " \o EscapeId(table) \o " SET "
                                        \o Join([i \in 1..Len(data) |->
                                                    EscapeId(data[i].k) \o " = ?"], ", ")
                                        \o " WHERE " \o Join(where, " AND "),
                                     [i \in 1..Len(data) |-> data[i].v] \o values) >>
        /\ replies' = << >>
        /\ logCalls' = << >>
        /\ outcome' = Pending("updateData")
        /\ UNCHANGED << caller, isDev, cfg, data, tx, logger >>

\* updateData after connection.query settles.
UpdateDataSettle(result) ==
    /\ pc = "updateData"
    /\ pc' = "idle"
    /\ replies' = << result >>
    /\ IF result.ok
       THEN /\ logCalls' = << LogQuery(poolCalls[1].sql, poolCalls[1].values) >>
            /\ outcome' = Resolved("updateData", [type |-> "number", n |-> result.affectedRows])
       ELSE /\ logCalls' = << LogError(poolCalls[1].sql, result.message, poolCalls[1].values) >>
            /\ outcome' = Rejected("updateData", Wrapped("Failed to update data", result.message))
    /\ UNCHANGED << caller, isDev, cfg, data, args, poolCalls, tx, logger >>

\* deleteData up to its await, data being its where argument.
DeleteDataCall(table) ==
    /\ caller = "writes"
    /\ pc = "idle"
    /\ pc' = "deleteData"
    /\ args' = [NoArgs EXCEPT !.table = table, !.data = data]
    /\ poolCalls' = << Statement("DELETE FROM " \o EscapeId(table) \o " WHERE "
                                    \o Join([i \in 1..Len(data) |->
                                                EscapeId(data[i].k) \o " = ?"], " AND "),
                                 [i \in 1..Len(data) |-> data[i].v]) >>
    /\ replies' = << >>
    /\ logCalls' = << >>
    /\ outcome' = Pending("deleteData")
    /\ UNCHANGED << caller, isDev, cfg, data, tx, logger >>

\* deleteData after connection.query settles.
DeleteDataSettle(result) ==
    /\ pc = "deleteData"
    /\ pc' = "idle"
    /\ replies' = << result >>
    /\ IF result.ok
       THEN /\ logCalls' = << LogQuery(poolCalls[1].sql, poolCalls[1].values) >>
            /\ outcome' = Resolved("deleteData", [type |-> "number", n |-> result.affectedRows])
       ELSE /\ logCalls' = << LogError(poolCalls[1].sql, result.message, poolCalls[1].values) >>
            /\ outcome' = Rejected("deleteData", Wrapped("Failed to delete data", result.message))
    /\ UNCHANGED << caller, isDev, cfg, data, args, poolCalls, tx, logger >>

\* rawQuery up to its await.
RawQueryCall(query) ==
    \E values \in CallerValues :
        /\ caller = "writes"
        /\ pc = "idle"
        /\ pc' = "rawQuery"
        /\ args' = [NoArgs EXCEPT !.values = values]
        /\ poolCalls' = << Statement(query, values) >>
        /\ replies' = << >>
        /\ logCalls' = << >>
        /\ outcome' = Pending("rawQuery")
        /\ UNCHANGED << caller, isDev, cfg, data, tx, logger >>

\* rawQuery after connection.query settles: its catch block throws the same
\* message whatever isDev is.
RawQuerySettle(reply) ==
    /\ pc = "rawQuery"
    /\ pc' = "idle"
    /\ replies' = << reply >>
    /\ IF reply.ok
       THEN /\ logCalls' = << LogQuery(poolCalls[1].sql, poolCalls[1].values) >>
            /\ outcome' = Resolved("rawQuery", [type |-> "rows", rows |-> reply.rows])
       ELSE /\ logCalls' = << LogError(poolCalls[1].sql, reply.message, poolCalls[1].values) >>
            /\ outcome' = Rejected("rawQuery", "Failed to execute raw query")
    /\ UNCHANGED << caller, isDev, cfg, data, args, poolCalls, tx, logger >>

(***************************************************************************)
(* withTransaction and the Transaction object it creates.  tx.calls lists  *)
(* what the pool and the connection were asked to do, in order; tx.failed  *)
(* holds the calls the driver rejected; tx.callback is how the callback    *)
(* settled.                                                                *)
(***************************************************************************)

\* The error the driver rejects a connection call with.
ConnectionError(method) == method \o ": Connection lost"

\* withTransaction up to its first await: a new Transaction, whose begin
\* asks the pool for a connection.
WithTransactionCall ==
    /\ caller = "transaction"
    /\ pc = "idle"
    /\ pc' = "getConnection"
    /\ tx' = [NoTransaction EXCEPT !.calls = << "getConnection" >>]
    /\ args' = NoArgs
    /\ poolCalls' = << >>
    /\ replies' = << >>
    /\ logCalls' = << >>
    /\ outcome' = Pending("withTransaction")
    /\ UNCHANGED << caller, isDev, cfg, data, logger >>

\* begin after pool.getConnection settles: it starts the transaction on the
\* connection, or throws into the catch block of withTransaction, which finds
\* the transaction inactive and throws the error on.
GetConnectionSettle(ok) ==
    /\ pc = "getConnection"
    /\ IF ok
       THEN /\ pc' = "beginTransaction"
            /\ tx' = [tx EXCEPT !.connection = TRUE, !.acquired = @ + 1,
                                !.calls = Append(@, "beginTransaction")]
            /\ UNCHANGED outcome
       ELSE /\ pc' = "idle"
            /\ tx' = [tx EXCEPT !.failed = @ \cup { "getConnection" }]
            /\ outcome' = Rejected("withTransaction", ConnectionError("getConnection"))
    /\ UNCHANGED << caller, isDev, cfg, data, args, poolCalls, replies, logCalls, logger >>

\* begin after connection.beginTransaction settles: the transaction becomes
\* active and the callback is called, or begin throws with the connection
\* kept and the transaction inactive.
BeginTransactionSettle(ok) ==
    /\ pc = "beginTransaction"
    /\ IF ok
       THEN /\ pc' = "callback"
            /\ tx' = [tx EXCEPT !.isActive = TRUE]
            /\ UNCHANGED outcome
       ELSE /\ pc' = "idle"
            /\ tx' = [tx EXCEPT !.failed = @ \cup { "beginTransaction" }]
            /\ outcome' = Rejected("withTransaction", ConnectionError("beginTransaction"))
    /\ UNCHANGED << caller, isDev, cfg, data, args, poolCalls, replies, logCalls, logger >>

\* withTransaction after the callback settles: commit when it resolved,
\* and from the catch block rollback when it rejected, the transaction being
\* active; the error to throw once the rollback is done is kept in tx.error.
CallbackSettle(settled) ==
    /\ pc = "callback"
    /\ IF settled.status = "resolved"
       THEN /\ pc' = "commit"
            /\ tx' = [tx EXCEPT !.callback = settled, !.calls = Append(@, "commit")]
       ELSE /\ pc' = "rollback"
            /\ tx' = [tx EXCEPT !.callback = settled, !.calls = Append(@, "rollback"),
                                !.error = settled.message]
    /\ UNCHANGED << caller, isDev, cfg, data, args, poolCalls, replies, logCalls, outcome,
                    logger >>

\* commit after connection.commit settles: release and resolve with the
\* result of the callback, or throw into the catch block, which finds the
\* transaction still active and rolls back.
CommitSettle(ok) ==
    /\ pc = "commit"
    /\ IF ok
       THEN /\ pc' = "idle"
            /\ tx' = [tx EXCEPT !.isActive = FALSE, !.connection = FALSE,
                                !.calls = Append(@, "release")]
            /\ outcome' = Resolved("withTransaction", tx.callback.value)
       ELSE /\ pc' = "rollback"
            /\ tx' = [tx EXCEPT !.failed = @ \cup { "commit" },
                                !.calls = Append(@, "rollback"),
                                !.error = ConnectionError("commit")]
            /\ UNCHANGED outcome
    /\ UNCHANGED << caller, isDev, cfg, data, args, poolCalls, replies, logCalls, logger >>

\* rollback after connection.rollback settles: release, and the catch block
\* throws the error it caught; or rollback throws, and its error is what
\* leaves the catch block, the connection kept and the transaction active.
RollbackSettle(ok) ==
    /\ pc = "rollback"
    /\ pc' = "idle"
    /\ IF ok
       THEN /\ tx' = [tx EXCEPT !.isActive = FALSE, !.connection = FALSE,
                                !.calls = Append(@, "release")]
            /\ outcome' = Rejected("withTransaction", tx.error)
       ELSE /\ tx' = [tx EXCEPT !.failed = @ \cup { "rollback" }]
            /\ outcome' = Rejected("withTransaction", ConnectionError("rollback"))
    /\ UNCHANGED << caller, isDev, cfg, data, args, poolCalls, replies, logCalls, logger >>

(***************************************************************************)
(* A Transaction object from createTransaction, used by its caller.  The   *)
(* caller may call begin again before an earlier call has settled:         *)
(* tx.begins holds, per call of begin, the await it stands at or how it    *)
(* settled; tx.acquired counts the connections the pool handed out.        *)
(***************************************************************************)

BeginAt(at, message) == [at |-> at, message |-> message]

\* Transaction.begin up to its first await: it throws when the transaction
\* is active, else it asks the pool for a connection.
TransactionBegin ==
    /\ caller = "createTransaction"
    /\ Len(tx.begins) < MaxBegins
    /\ IF tx.isActive
       THEN tx' = [tx EXCEPT !.begins = Append(@, BeginAt("rejected",
                                                          "Transaction already started"))]
       ELSE tx' = [tx EXCEPT !.begins = Append(@, BeginAt("getConnection", "")),
                             !.calls = Append(@, "getConnection")]
    /\ UNCHANGED << caller, isDev, cfg, data, pc, args, poolCalls, replies, logCalls,
                    outcome, logger >>

\* The i-th begin after pool.getConnection settles: the connection is
\* assigned to this.connection, whatever it held, and asked to begin.
TransactionBeginConnected(i, ok) ==
    /\ i \in 1..Len(tx.begins)
    /\ tx.begins[i].at = "getConnection"
    /\ IF ok
       THEN tx' = [tx EXCEPT !.connection = TRUE, !.acquired = @ + 1,
                             !.calls = Append(@, "beginTransaction"),
                             !.begins[i] = BeginAt("beginTransaction", "")]
       ELSE tx' = [tx EXCEPT !.failed = @ \cup { "getConnection" },
                             !.begins[i] = BeginAt("rejected",
                                                   ConnectionError("getConnection"))]
    /\ UNCHANGED << caller, isDev, cfg, data, pc, args, poolCalls, replies, logCalls,
                    outcome, logger >>

\* The i-th begin after connection.beginTransaction settles.
TransactionBeginStarted(i, ok) ==
    /\ i \in 1..Len(tx.begins)
    /\ tx.begins[i].at = "beginTransaction"
    /\ IF ok
       THEN tx' = [tx EXCEPT !.isActive = TRUE, !.begins[i] = BeginAt("resolved", "")]
       ELSE tx' = [tx EXCEPT !.failed = @ \cup { "beginTransaction" },
                             !.begins[i] = BeginAt("rejected",
                                                   ConnectionError("beginTransaction"))]
    /\ UNCHANGED << caller, isDev, cfg, data, pc, args, poolCalls, replies, logCalls,
                    outcome, logger >>

\* Transaction.commit up to its await.
TransactionCommit ==
    /\ caller = "createTransaction"
    /\ pc = "idle"
    /\ Len(SelectSeq(tx.calls, LAMBDA c : c \in { "commit", "rollback" })) < MaxEnds
    /\ IF ~tx.isActive \/ ~tx.connection
       THEN /\ outcome' = Rejected("commit", "No active transaction to commit")
            /\ UNCHANGED << pc, tx >>
       ELSE /\ pc' = "Transaction.commit"
            /\ tx' = [tx EXCEPT !.calls = Append(@, "commit")]
            /\ outcome' = Pending("commit")
    /\ UNCHANGED << caller, isDev, cfg, data, args, poolCalls, replies, logCalls, logger >>

\* Transaction.commit after connection.commit settles.
TransactionCommitSettle(ok) ==
    /\ pc = "Transaction.commit"
    /\ pc' = "idle"
    /\ IF ok
       THEN /\ tx' = [tx EXCEPT !.isActive = FALSE, !.connection = FALSE,
                                !.calls = Append(@, "release")]
            /\ outcome' = Resolved("commit", NoValue)
       ELSE /\ tx' = [tx EXCEPT !.failed = @ \cup { "commit" }]
            /\ outcome' = Rejected("commit", ConnectionError("commit"))
    /\ UNCHANGED << caller, isDev, cfg, data, args, poolCalls, replies, logCalls, logger >>

\* Transaction.rollback up to its await.
TransactionRollback ==
    /\ caller = "createTransaction"
    /\ pc = "idle"
    /\ Len(SelectSeq(tx.calls, LAMBDA c : c \in { "commit", "rollback" })) < MaxEnds
    /\ IF ~tx.isActive \/ ~tx.connection
       THEN /\ outcome' = Rejected("rollback", "No active transaction to rollback")
            /\ UNCHANGED << pc, tx >>
       ELSE /\ pc' = "Transaction.rollback"
            /\ tx' = [tx EXCEPT !.calls = Append(@, "rollback")]
            /\ outcome' = Pending("rollback")
    /\ UNCHANGED << caller, isDev, cfg, data, args, poolCalls, replies, logCalls, logger >>

\* Transaction.rollback after connection.rollback settles.
TransactionRollbackSettle(ok) ==
    /\ pc = "Transaction.rollback"
    /\ pc' = "idle"
    /\ IF ok
       THEN /\ tx' = [tx EXCEPT !.isActive = FALSE, !.connection = FALSE,
                                !.calls = Append(@, "release")]
            /\ outcome' = Resolved("rollback", NoValue)
       ELSE /\ tx' = [tx EXCEPT !.failed = @ \cup { "rollback" }]
            /\ outcome' = Rejected("rollback", ConnectionError("rollback"))
    /\ UNCHANGED << caller, isDev, cfg, data, args, poolCalls, replies, logCalls, logger >>

\* Transaction.getConnection
TransactionGetConnection ==
    /\ caller = "createTransaction"
    /\ pc = "idle"
    /\ outcome' = IF ~tx.isActive \/ ~tx.connection
                  THEN Rejected("getConnection", "No active transaction")
                  ELSE Resolved("getConnection", NoValue)
    /\ UNCHANGED << caller, isDev, cfg, data, pc, args, poolCalls, replies, logCalls, tx,
                    logger >>

(***************************************************************************)
(* QueryLogger.  logger.file lists what was written to the log stream: the *)
(* line, and beside it the entry it was formatted from.  An absent         *)
(* duration is << >>, an absent error or stack trace is "".                *)
(***************************************************************************)

\* JSON.stringify of an array of strings and nulls (no character of the
\* strings needs escaping).
JsonStringify(values) ==
    "[" \o Join([i \in 1..Len(values) |->
                    IF values[i] = NullValue THEN "null"
                    ELSE "\"" \o values[i] \o "\""], ",") \o "]"

\* QueryLogger.formatLogEntry
FormatLogEntry(entry) ==
    "[" \o entry.timestamp \o "] [" \o ToUpperCase(entry.level) \o "]"
        \o (IF Len(entry.duration) > 0
            THEN " [" \o NatToString(entry.duration[1]) \o "ms]" ELSE "")
        \o " " \o entry.query
        \o (IF Len(entry.values) > 0 THEN " | Values: " \o JsonStringify(entry.values) ELSE "")
        \o (IF entry.error # "" THEN " | Error: " \o entry.error ELSE "")
        \o (IF entry.stackTrace # "" THEN " \nStack: " \o entry.stackTrace ELSE "")

\* QueryLogger.log with writeToFile: nothing when the logger is disabled;
\* the formatted line goes to the stream when logToFile is set and the
\* stream is open.
Log(entry) ==
    /\ logger.calls + logger.updates < MaxLogCalls
    /\ logger' = [logger EXCEPT
                      !.calls = @ + 1,
                      !.file = IF logger.enabled /\ logger.logToFile /\ logger.logStream
                               THEN Append(@, [line |-> FormatLogEntry(entry) \o "\n",
                                               entry |-> entry])
                               ELSE @]
    /\ UNCHANGED << caller, isDev, cfg, data, pc, args, poolCalls, replies, logCalls,
                    outcome, tx >>

\* QueryLogger.logQuery
QueryLoggerLogQuery(query, values, duration, timestamp) ==
    /\ caller = "logger"
    /\ Log([timestamp |-> timestamp,
            level |-> IF Len(duration) > 0 /\ duration[1] > logger.slowQueryThreshold
                      THEN "warn" ELSE "info",
            duration |-> duration, query |-> query, values |-> values,
            error |-> "", stackTrace |-> ""])

\* QueryLogger.logError
QueryLoggerLogError(query, error, values, timestamp) ==
    /\ caller = "logger"
    /\ Log([timestamp |-> timestamp, level |-> "error", duration |-> << >>,
            query |-> query, values |-> values,
            error |-> error.message, stackTrace |-> error.stack])

\* QueryLogger.initializeLogStream: a write stream is created and assigned
\* to logStream, whatever logToFile is and whatever logStream held.
InitializeLogStream(l) == [l EXCEPT !.logStream = TRUE, !.opened = @ + 1]

\* QueryLogger.close
Close(l) == IF l.logStream THEN [l EXCEPT !.logStream = FALSE, !.ended = @ + 1] ELSE l

\* QueryLogger.updateConfig with a partial configuration, an absent option
\* being << >>: the options given replace the current ones, and the stream
\* is opened or closed when enabled changed.
QueryLoggerUpdateConfig(config) ==
    /\ caller = "logger"
    /\ logger.calls + logger.updates < MaxLogCalls
    /\ logger' =
           [ (IF ~logger.enabled /\ config.enabled = << TRUE >>
              THEN InitializeLogStream(logger)
              ELSE IF logger.enabled /\ config.enabled = << FALSE >>
              THEN Close(logger)
              ELSE logger)
             EXCEPT !.enabled = IF Len(config.enabled) > 0 THEN config.enabled[1] ELSE @,
                    !.logToFile = IF Len(config.logToFile) > 0 THEN config.logToFile[1]
                                  ELSE @,
                    !.updates = @ + 1 ]
    /\ UNCHANGED << caller, isDev, cfg, data, pc, args, poolCalls, replies, logCalls,
                    outcome, tx >>

Next ==
    \/ GetDataCall
    \/ \E r \in GetDataReplies : GetDataSettle(r[1], r[2])
    \/ GetFirstCall
    \/ \E reply \in RowReplies : GetFirstSettle(reply)
    \/ BatchInsertCall("users")
    \/ \E result \in InsertReplies : BatchInsertSettle(result)
    \/ InsertDataCall("users")
    \/ \E result \in InsertReplies : InsertDataSettle(result)
    \/ UpdateDataCall("users", << "id = ?" >>)
    \/ \E result \in InsertReplies : UpdateDataSettle(result)
    \/ DeleteDataCall("users")
    \/ \E result \in InsertReplies : DeleteDataSettle(result)
    \/ RawQueryCall("SELECT * FROM users WHERE id = ?")
    \/ \E reply \in RowReplies : RawQuerySettle(reply)
    \/ CreateTableCall
    \/ WithTransactionCall
    \/ \E ok \in BOOLEAN : GetConnectionSettle(ok)
    \/ \E ok \in BOOLEAN : BeginTransactionSettle(ok)
    \/ \E settled \in CallbackResults : CallbackSettle(settled)
    \/ \E ok \in BOOLEAN : CommitSettle(ok)
    \/ \E ok \in BOOLEAN : RollbackSettle(ok)
    \/ TransactionBegin
    \/ \E i \in 1..MaxBegins, ok \in BOOLEAN : TransactionBeginConnected(i, ok)
    \/ \E i \in 1..MaxBegins, ok \in BOOLEAN : TransactionBeginStarted(i, ok)
    \/ TransactionCommit
    \/ \E ok \in BOOLEAN : TransactionCommitSettle(ok)
    \/ TransactionRollback
    \/ \E ok \in BOOLEAN : TransactionRollbackSettle(ok)
    \/ TransactionGetConnection
    \/ \E values \in LoggedValues, duration \in { << >>, << 5 >>, << 2000 >> },
          timestamp \in Timestamps :
           QueryLoggerLogQuery("SELECT * FROM users WHERE id = ?", values, duration, timestamp)
    \/ \E values \in LoggedValues, stack \in { "", "Error: " \o DriverError \o " at query" },
          timestamp \in Timestamps :
           QueryLoggerLogError("SELECT * FROM users WHERE id = ?",
                               [message |-> DriverError, stack |-> stack], values, timestamp)
    \/ \E enabled \in { << >>, << TRUE >>, << FALSE >> },
          logToFile \in { << >>, << TRUE >>, << FALSE >> } :
           QueryLoggerUpdateConfig([enabled |-> enabled, logToFile |-> logToFile])
    \/ \E reply \in { ReplyRows(<< >>), ReplyError } : CreateTableDropSettle(reply)
    \/ \E reply \in { ReplyRows(<< >>), ReplyError } : CreateTableSettle(reply)

Spec == Init /\ [][Next]_vars

(***************************************************************************)
(* Properties.                                                             *)
(***************************************************************************)

\* The denylist as the documentation states it.
DocumentedDenyTexts == << ";", "--", "/*" >>

DocumentedDenyWords ==
    << "UNION", "DROP", "DELETE", "INSERT", "UPDATE", "EXEC", "EXECUTE", "SLEEP",
       "BENCHMARK", "LOAD_FILE", "INTO OUTFILE" >>

Denylisted(fragment) ==
    \/ \E k \in 1..Len(DocumentedDenyTexts) : Includes(fragment, DocumentedDenyTexts[k])
    \/ \E k \in 1..Len(DocumentedDenyWords) : MatchesWord(fragment, DocumentedDenyWords[k])

DangerousPatternText == "potentially dangerous pattern detected"

\* C1: getFirst leaves every field of the caller's config, limit included, as
\* it was before the call, so a later getData or getFirst on the same object
\* compiles the SQL it would have compiled before.
C1_GetFirstKeepsConfig == [][outcome'.op = "getFirst" => cfg' = cfg]_vars

\* C2: getData on a config whose where list holds a denylisted fragment
\* rejects with the WHERE message and hands no statement to the pool.
C2_WhereInjectionRejected ==
    (outcome.op = "getData" /\ \E i \in 1..Len(cfg.where) : Denylisted(cfg.where[i]))
        => /\ outcome.status = "rejected"
           /\ Includes(outcome.message, "Invalid WHERE clause: " \o DangerousPatternText)
           /\ poolCalls = << >>

\* The patterns C3 lists for JOIN ON clauses.
C3_Words == << "UNION", "DROP", "DELETE", "INSERT", "UPDATE", "EXEC", "EXECUTE" >>

C3_Listed(on) ==
    \/ Includes(on, ";") \/ Includes(on, "--") \/ Includes(on, "/*")
    \/ \E k \in 1..Len(C3_Words) : MatchesWord(on, C3_Words[k])

RECURSIVE C3_ListedAnywhere(_)
\* Some join of the config, of a subquery field or of a union entry has a
\* listed pattern in its on text.
C3_ListedAnywhere(config) ==
    \/ \E j \in 1..Len(config.joins) : C3_Listed(config.joins[j].on)
    \/ \E f \in 1..Len(config.fields) :
           config.fields[f].kind = "sub" /\ C3_ListedAnywhere(config.fields[f].sub[1])
    \/ \E u \in 1..Len(config.union) : C3_ListedAnywhere(config.union[u])

C3_JoinHead(join) == " " \o join.type \o " JOIN " \o EscapeId(join.table) \o " ON "

C4_Words == << "SLEEP", "BENCHMARK", "LOAD_FILE", "INTO OUTFILE" >>

\* C4: getData on a config with a join whose on text contains SLEEP,
\* BENCHMARK, LOAD_FILE or INTO OUTFILE rejects with a message containing
\* 'potentially dangerous pattern detected' and issues no statement.
C4_JoinOnExtendedDenylist ==
    (/\ outcome.op = "getData"
     /\ \E j \in 1..Len(cfg.joins) : \E k \in 1..Len(C4_Words) :
            MatchesWord(cfg.joins[j].on, C4_Words[k]))
        => /\ outcome.status = "rejected"
           /\ Includes(outcome.message, DangerousPatternText)
           /\ poolCalls = << >>

\* C5: getData on a config whose having list holds a denylisted fragment
\* rejects with the HAVING message and issues no statement.
C5_HavingInjectionRejected ==
    (outcome.op = "getData" /\ \E i \in 1..Len(cfg.having) : Denylisted(cfg.having[i]))
        => /\ outcome.status = "rejected"
           /\ Includes(outcome.message, "Invalid HAVING clause: " \o DangerousPatternText)
           /\ poolCalls = << >>

\* C6: getData on a config with a {raw: expr} field whose expr is denylisted
\* rejects with the raw SQL field message and issues no statement; an expr
\* that is not denylisted is emitted verbatim as expr AS alias.
C6_RawFieldValidated ==
    outcome.op = "getData" =>
        \A f \in 1..Len(cfg.fields) :
            cfg.fields[f].kind = "raw" =>
                IF Denylisted(cfg.fields[f].val)
                THEN /\ outcome.status = "rejected"
                     /\ Includes(outcome.message,
                                 "Invalid raw SQL field: " \o DangerousPatternText)
                     /\ poolCalls = << >>
                ELSE /\ Len(poolCalls) = 2
                     /\ Includes(poolCalls[1].sql,
                                 cfg.fields[f].val \o " AS " \o EscapeId(cfg.fields[f].key))

\* C7: the count statement getData issues second contains COUNT(, has no
\* ORDER BY clause and carries LIMIT 1, whatever the config orders or limits.
C7_CountQueryShape ==
    (outcome.op = "getData" /\ Len(poolCalls) = 2)
        => /\ Includes(poolCalls[2].sql, "COUNT(")
           /\ ~Includes(poolCalls[2].sql, "ORDER BY")
           /\ Includes(poolCalls[2].sql \o " ", " LIMIT 1 ")

\* C8: with skipCount getData hands one statement, the row query, to the pool
\* and returns count -1 with the rows; without it two statements, row then
\* count, and the count column of the first row of the count statement.
C8_SkipCount ==
    (outcome.op = "getData" /\ outcome.status \in {"pending", "resolved"})
        => /\ poolCalls[1].sql = BuildQuery(cfg, FALSE).query
           /\ outcome.status = "resolved" => outcome.value.rows = replies[1].rows
           /\ IF args.skipCount
              THEN /\ Len(poolCalls) = 1
                   /\ outcome.status = "resolved" => outcome.value.count = 0 - 1
              ELSE /\ Len(poolCalls) = 2
                   /\ poolCalls[2].sql = BuildQuery(cfg, TRUE).query
                   /\ (outcome.status = "resolved" /\ Len(replies[2].rows) > 0)
                          => outcome.value.count = replies[2].rows[1].count

\* C9: batchInsertData resolves to {firstInsertId, affectedRows}: zeros and no
\* statement for an empty array, else the insertId and affectedRows the
\* driver reported for the single INSERT.
C9_BatchInsertResult ==
    (outcome.op = "batchInsertData" /\ outcome.status = "resolved")
        => /\ outcome.value.type = "object"
           /\ IF Len(args.data) = 0
              THEN /\ outcome.value.firstInsertId = 0
                   /\ outcome.value.affectedRows = 0
                   /\ poolCalls = << >>
              ELSE /\ Len(poolCalls) = 1
                   /\ outcome.value.firstInsertId = replies[1].insertId
                   /\ outcome.value.affectedRows = replies[1].affectedRows

\* Every row carries the keys of the first row.
C10_AllCarry(rows) ==
    /\ Len(rows) >= 1
    /\ \A i \in 1..Len(rows) : \A k \in 1..Len(rows[1]) : HasKey(rows[i], rows[1][k].k)

RECURSIVE C10_Tuples(_, _)
\* n tuples of width placeholders: (?, ?), (?, ?), ...
C10_Tuples(n, width) ==
    IF n = 0 THEN ""
    ELSE "(" \o Join([j \in 1..width |-> "?"], ", ") \o ")"
             \o (IF n > 1 THEN ", " ELSE "") \o C10_Tuples(n - 1, width)

\* C10: for N >= 1 rows that all carry the keys K of the first row,
\* batchInsertData issues one statement INSERT INTO table (K) VALUES with N
\* tuples of |K| placeholders and binds N*|K| values in row-major order, the
\* values of row i in the key order of the first row, null kept in place.
C10_BatchInsertStatement ==
    (outcome.op = "batchInsertData" /\ C10_AllCarry(args.data))
        => LET K == Keys(args.data[1])
               N == Len(args.data)
           IN /\ Len(poolCalls) = 1
              /\ poolCalls[1].sql =
                     "INSERT INTO " \o EscapeId(args.table) \o " ("
                         \o Join([j \in 1..Len(K) |-> EscapeId(K[j])], ", ")
                         \o ") VALUES " \o C10_Tuples(N, Len(K))
              /\ Len(poolCalls[1].values) = N * Len(K)
              /\ \A i \in 1..N : \A j \in 1..Len(K) :
                     poolCalls[1].values[(i - 1) * Len(K) + j] = ValueOf(args.data[i], K[j])

\* A batch of two rows, one holding null and one with its keys in another
\* order, has been handed to the pool as one statement.
C10_Witness ==
    /\ outcome.op = "batchInsertData"
    /\ Len(args.data) = 2
    /\ C10_AllCarry(args.data)
    /\ \E k \in 1..Len(args.data[1]) : args.data[1][k].v = NullValue
    /\ Keys(args.data[2]) # Keys(args.data[1])
    /\ Len(poolCalls) = 1

\* A text of one or more word characters.
IsIdentifier(s) == Len(s) > 0 /\ \A i \in 1..Len(s) : IsWordChar(CharAt(s, i))

\* The documented shape of a foreign key reference: identifier(identifier).
ReferenceShaped(reference) ==
    \E i \in 1..Len(reference) :
        /\ CharAt(reference, i) = "("
        /\ CharAt(reference, Len(reference)) = ")"
        /\ IsIdentifier(StrTake(reference, i - 1))
        /\ i + 1 <= Len(reference) - 1
        /\ IsIdentifier(SubSeq(reference, i + 1, Len(reference) - 1))

\* The pool was handed a CREATE TABLE statement that contains the text.
CreateTableSentWith(text) ==
    \E i \in 1..Len(poolCalls) :
        /\ StartsWithAt(poolCalls[i].sql, "CREATE TABLE", 1)
        /\ Includes(poolCalls[i].sql, text)

\* C11: createTable with a foreign key whose reference is not of the shape
\* identifier(identifier) hands the pool no CREATE TABLE statement that
\* contains the reference, never resolves, and rejects with a message that
\* contains 'Invalid foreign key reference format'; with every reference of
\* that shape it resolves once the driver has accepted its statements.
C11_ForeignKeyReferenceValidated ==
    (caller = "createTable" /\ outcome.op = "createTable")
        => /\ \A i \in 1..Len(cfg.foreignKeys) :
                  ~ReferenceShaped(cfg.foreignKeys[i].reference)
                      => /\ ~CreateTableSentWith(cfg.foreignKeys[i].reference)
                         /\ outcome.status # "resolved"
                         /\ outcome.status = "rejected"
                                => Includes(outcome.message,
                                            "Invalid foreign key reference format")
           /\ ( /\ \A i \in 1..Len(cfg.foreignKeys) :
                        ReferenceShaped(cfg.foreignKeys[i].reference)
                /\ pc = "idle"
                /\ \A j \in 1..Len(replies) : replies[j].ok )
                  => outcome.status = "resolved"

\* A text holds a character that ends or breaks out of a statement.
StatementBreaking(text) == Includes(text, ";") \/ Includes(text, SingleQuote)

\* The charset options of the columns of a table definition, "" when absent.
C12_ColumnCharsets(config) ==
    { IF Len(config.columns[i].options) > 0 THEN config.columns[i].options[1].charset ELSE "" :
          i \in 1..Len(config.columns) }

\* The engine option of a table definition, "" when absent.
C12_Engine(config) ==
    IF Len(config.tableOptions) > 0 THEN config.tableOptions[1].engine ELSE ""

\* C12: createTable with a column charset that holds statement-breaking
\* characters sends no CREATE TABLE statement and rejects with a message
\* containing 'Invalid character set'; with such an engine it sends none and
\* rejects with a message containing 'Invalid engine'.
C12_CharsetAndEngineValidated ==
    (caller = "createTable" /\ outcome.op = "createTable")
        => /\ (\E c \in C12_ColumnCharsets(cfg) : StatementBreaking(c))
                  => /\ ~CreateTableSentWith("")
                     /\ outcome.status # "resolved"
                     /\ outcome.status = "rejected"
                            => Includes(outcome.message, "Invalid character set")
           /\ StatementBreaking(C12_Engine(cfg))
                  => /\ ~CreateTableSentWith("")
                     /\ outcome.status # "resolved"
                     /\ outcome.status = "rejected"
                            => Includes(outcome.message, "Invalid engine")

\* The where fragment begins with the token alias, which optional white space
\* and one of the documented operators follow.
C13_AliasThenOperator(fragment, alias) ==
    /\ StartsWithAt(fragment, alias, 1)
    /\ ~IsWordChar(CharAt(fragment, Len(alias) + 1))
    /\ \E p \in (Len(alias) + 1)..Len(fragment) :
           /\ \A j \in (Len(alias) + 1)..(p - 1) : IsSpaceChar(CharAt(fragment, j))
           /\ \E op \in { "=", "!=", "<>", "<", ">", "<=", ">=", "<=>", "LIKE", "NOT LIKE",
                          "IN", "NOT IN", "IS NULL", "IS NOT NULL", "BETWEEN" } :
                  StartsWithAt(ToUpperCase(fragment), op, p)

\* The text that joins the i-th entry of the WHERE list to what precedes it.
C13_Lead(i) == IF i = 1 THEN " WHERE " ELSE " AND "

\* C13: when an alias a maps to a plain column c and a where fragment begins
\* with a followed by a recognised operator, every statement compiled from
\* the config holds the fragment in its WHERE clause with the leading a
\* replaced by c and the rest of the fragment as it was written, and the row
\* statement still selects c AS a.
C13_WhereAliasResolved ==
    (caller = "queries" /\ outcome.op \in { "getData", "getFirst" })
        => \A s \in 1..Len(poolCalls), i \in 1..Len(cfg.where), f \in 1..Len(cfg.fields) :
               (cfg.fields[f].kind = "col" /\ C13_AliasThenOperator(cfg.where[i], cfg.fields[f].key))
                   => /\ Includes(poolCalls[s].sql,
                                  C13_Lead(i) \o cfg.fields[f].val
                                      \o StrFrom(cfg.where[i], Len(cfg.fields[f].key) + 1)
                                      \o (IF i < Len(cfg.where) THEN " AND " ELSE ""))
                      /\ ~Includes(poolCalls[s].sql, C13_Lead(i) \o cfg.where[i])
                      /\ Includes(poolCalls[1].sql,
                                  EscapeId(cfg.fields[f].val) \o " AS "
                                      \o EscapeId(cfg.fields[f].key))

\* A statement has been compiled from a config whose second where fragment
\* begins with the alias name and a lower-case operator, and whose first
\* names the alias id twice.
C13_Witness ==
    /\ caller = "queries"
    /\ outcome.op = "getData"
    /\ Len(poolCalls) = 2
    /\ Len(cfg.where) = 2
    /\ C13_AliasThenOperator(cfg.where[1], "id")
    /\ Includes(StrFrom(cfg.where[1], 3), "id")
    /\ C13_AliasThenOperator(cfg.where[2], "name")
    /\ Includes(poolCalls[1].sql, " WHERE user_id = ? OR id IS NULL AND full_name  not in (?)")

\* The entries of a whereIn or whereNotIn map that have at least one value.
C14_NonEmpty(entries) == SelectSeq(entries, LAMBDA e : Len(e.values) > 0)

\* One clause per entry: the escaped column of the key, the keyword, and one
\* ? per value.
C14_Clauses(entries, keyword, config) ==
    [i \in 1..Len(entries) |->
        EscapeId(IF \E f \in 1..Len(config.fields) :
                        config.fields[f].kind = "col" /\ config.fields[f].key = entries[i].key
                 THEN config.fields[CHOOSE f \in 1..Len(config.fields) :
                                        config.fields[f].key = entries[i].key].val
                 ELSE entries[i].key)
            \o keyword \o "("
            \o Join([k \in 1..Len(entries[i].values) |-> "?"], ", ") \o ")"]

RECURSIVE C14_Values(_)
\* The values of the entries, entry after entry.
C14_Values(entries) ==
    IF Len(entries) = 0 THEN << >> ELSE entries[1].values \o C14_Values(Tail(entries))

\* The documented WHERE list of a config: where fragments, IN clauses, NOT IN
\* clauses.
C14_WhereList(config) ==
    [i \in 1..Len(config.where) |-> ResolveWhereClause(config.where[i], config)]
        \o C14_Clauses(C14_NonEmpty(config.whereIn), " IN ", config)
        \o C14_Clauses(C14_NonEmpty(config.whereNotIn), " NOT IN ", config)

\* The statement holds exactly one WHERE clause, which is the AND-join of the
\* list and is followed by the end of the statement or by the next clause.
C14_WhereIs(sql, list) ==
    /\ Includes(sql, " WHERE ")
    /\ ~Includes(StrFrom(sql, IndexOf(sql, " WHERE ") + 1), " WHERE ")
    /\ StartsWithAt(sql, " WHERE " \o Join(list, " AND "), IndexOf(sql, " WHERE "))
    /\ \E next \in { "", " GROUP BY ", " HAVING ", " ORDER BY ", " LIMIT ", " OFFSET " } :
           /\ StartsWithAt(sql, next,
                           IndexOf(sql, " WHERE ") + Len(" WHERE " \o Join(list, " AND ")))
           /\ next = "" => Len(sql) = IndexOf(sql, " WHERE ") - 1
                                          + Len(" WHERE " \o Join(list, " AND "))

\* The config has no subquery field and no union, whose own WHERE clauses
\* and values would be part of the statement.
C14_Flat(config) ==
    /\ config.union = << >>
    /\ \A f \in 1..Len(config.fields) : config.fields[f].kind # "sub"

\* C14: the WHERE clause of every compiled statement is the AND-join of the
\* where fragments, then one col IN (?, ...) per non-empty whereIn entry, then
\* one col NOT IN (?, ...) per non-empty whereNotIn entry, in key order, with
\* one ? per value and an alias key resolved; the values bound after the
\* caller's are those entries' values in the same order; an empty list adds
\* nothing, and there is no WHERE keyword when the list is empty.
C14_WhereAssembly ==
    (caller = "queries" /\ outcome.op \in { "getData", "getFirst" } /\ C14_Flat(cfg))
        => \A s \in 1..Len(poolCalls) :
               /\ IF C14_WhereList(cfg) = << >>
                  THEN ~Includes(poolCalls[s].sql, " WHERE ")
                  ELSE C14_WhereIs(poolCalls[s].sql, C14_WhereList(cfg))
               /\ poolCalls[s].values =
                      args.values \o C14_Values(cfg.whereIn) \o C14_Values(cfg.whereNotIn)

\* Statements have been compiled from a config with where fragments, a
\* whereIn map holding an empty list and a non-empty one, and a non-empty
\* whereNotIn entry under an alias.
C14_Witness ==
    /\ caller = "queries"
    /\ outcome.op = "getData"
    /\ Len(poolCalls) = 2
    /\ Len(cfg.where) = 2
    /\ Len(cfg.whereIn) = 2
    /\ cfg.whereIn[1].values = << >>
    /\ cfg.whereIn[2].values # << >>
    /\ Len(cfg.whereNotIn) = 1
    /\ cfg.whereNotIn[1].key = "name"
    /\ poolCalls[1].values = args.values \o << "x", "z" >>
    /\ Includes(poolCalls[1].sql, " AND ^role^ IN (?) AND ^full_name^ NOT IN (?)")

\* The position just after the WHERE clause of a statement compiled from a
\* config with the given WHERE list.
C15_WhereEnd(sql, list) ==
    IndexOf(sql, " WHERE ") + Len(" WHERE " \o Join(list, " AND "))

\* C15: in every compiled statement no ? written by the caller (in where,
\* having, join.on or raw fragments) stands after a ? the compiler generated
\* for whereIn or whereNotIn: the generated ones close the WHERE clause, so
\* when there is one, no ? follows the WHERE clause.
C15_CallerPlaceholdersFirst ==
    ( /\ caller = "queries"
      /\ outcome.op \in { "getData", "getFirst" }
      /\ C14_Flat(cfg)
      /\ C14_Values(cfg.whereIn) \o C14_Values(cfg.whereNotIn) # << >> )
        => \A s \in 1..Len(poolCalls) :
               ~Includes(StrFrom(poolCalls[s].sql,
                                 C15_WhereEnd(poolCalls[s].sql, C14_WhereList(cfg))), "?")

\* Neither the config nor a subquery or union inside it asks for DISTINCT.
C20_NoDistinct(config) ==
    /\ ~config.distinct
    /\ \A f \in 1..Len(config.fields) :
           config.fields[f].kind = "sub" => ~config.fields[f].sub[1].distinct
    /\ \A u \in 1..Len(config.union) : ~config.union[u].distinct

\* C20: with distinct set the row statement begins SELECT DISTINCT and the
\* count statement counts COUNT(DISTINCT <escaped idField>); without it
\* neither statement contains the word DISTINCT; whatever the other fields
\* of the config are.
C20_Distinct ==
    (caller = "queries" /\ outcome.op \in { "getData", "getFirst" })
        => /\ (cfg.distinct /\ Len(poolCalls) >= 1)
                  => StartsWithAt(poolCalls[1].sql, "SELECT DISTINCT ", 1)
           /\ (cfg.distinct /\ Len(poolCalls) = 2)
                  => StartsWithAt(poolCalls[2].sql,
                                  "SELECT COUNT(DISTINCT " \o EscapeId(cfg.idField)
                                      \o ") AS count FROM ", 1)
           /\ C20_NoDistinct(cfg)
                  => \A s \in 1..Len(poolCalls) : ~Includes(poolCalls[s].sql, "DISTINCT")

\* getData has compiled both statements from a distinct config that also has
\* a join, a raw field, a subquery field and a union.
C20_Witness ==
    /\ caller = "queries"
    /\ outcome.op = "getData"
    /\ cfg.distinct
    /\ Len(cfg.joins) > 0
    /\ Len(cfg.union) > 0
    /\ Len(poolCalls) = 2
    /\ StartsWithAt(poolCalls[2].sql, "SELECT COUNT(DISTINCT ^user_id^) AS count FROM ", 1)

\* The documented stable prefix of the errors of an operation.
C16_Prefix(op) ==
    CASE op \in { "getData", "getFirst" } -> "Failed to fetch data"
      [] op = "insertData" -> "Failed to insert data"
      [] op = "batchInsertData" -> "Failed to batch insert data"
      [] op = "updateData" -> "Failed to update data"
      [] op = "deleteData" -> "Failed to delete data"
      [] op = "rawQuery" -> "Failed to execute raw query"
      [] op = "createTable" -> "Failed to create table"
      [] OTHER -> ""

\* The driver rejected a statement of the latest call.
C16_DriverFailed == \E i \in 1..Len(replies) : ~replies[i].ok

\* C16: outside development mode, the error of an operation whose statement
\* the driver rejected starts with the stable prefix of the operation and
\* does not contain the message of the driver.
C16_DriverMessageSuppressed ==
    (~isDev /\ outcome.status = "rejected" /\ C16_DriverFailed)
        => /\ StartsWithAt(outcome.message, C16_Prefix(outcome.op), 1)
           /\ ~Includes(outcome.message, DriverError)

\* C18: when an operation that sent statements has settled, every statement
\* the driver rejected was reported to logError with its SQL and the error,
\* every statement that succeeded was reported to logQuery, and the sink was
\* informed at least once.
C18_SinkInformed ==
    (pc = "idle" /\ outcome.status \in { "resolved", "rejected" } /\ Len(poolCalls) > 0)
        => /\ Len(logCalls) > 0
           /\ \A i \in 1..Len(replies) :
                  \E l \in 1..Len(logCalls) :
                      /\ logCalls[l].sql = poolCalls[i].sql
                      /\ logCalls[l].kind = IF replies[i].ok THEN "logQuery" ELSE "logError"
                      /\ replies[i].ok \/ logCalls[l].error = replies[i].message

\* How often the connection of the transaction was asked to do method.
C17_Count(method) == Cardinality({ i \in 1..Len(tx.calls) : tx.calls[i] = method })

\* C17: once withTransaction has settled after a callback that rejected
\* with E, rollback was invoked exactly once, commit never, and the promise
\* is rejected with E, also when the rollback failed; after a callback that
\* resolved with v and a commit that succeeded, commit was invoked once,
\* rollback never, and the promise is resolved with v.
C17_WithTransaction ==
    (outcome.op = "withTransaction" /\ pc = "idle")
        => /\ tx.callback.status = "rejected"
                  => /\ C17_Count("rollback") = 1
                     /\ C17_Count("commit") = 0
                     /\ outcome.status = "rejected"
                     /\ outcome.message = tx.callback.message
           /\ (tx.callback.status = "resolved" /\ "commit" \notin tx.failed)
                  => /\ C17_Count("commit") = 1
                     /\ C17_Count("rollback") = 0
                     /\ outcome.status = "resolved"
                     /\ outcome.value = tx.callback.value

\* A line of the log file without its leading [timestamp] part.
C19_AfterTimestamp(line) == StrFrom(line, IndexOf(line, "] ") + 2)

\* Two entries differ in nothing but the parameter values, of which they
\* have the same number.
C19_SameButValues(e1, e2) ==
    /\ [e1 EXCEPT !.values = << >>, !.timestamp = ""]
           = [e2 EXCEPT !.values = << >>, !.timestamp = ""]
    /\ Len(e1.values) = Len(e2.values)

\* C19: with the logger enabled outside development mode, a line written
\* for logQuery or logError with N >= 1 values contains
\* 'Values: [N parameters redacted]' and none of the values, two lines whose
\* calls differ only in the values are equal after the timestamp, and a line
\* written for a call without values has no 'Values:' part.
C19_ValuesRedacted ==
    (caller = "logger" /\ logger.enabled /\ ~isDev)
        => /\ \A i \in 1..Len(logger.file) :
                  IF Len(logger.file[i].entry.values) >= 1
                  THEN /\ Includes(logger.file[i].line,
                                   "Values: ["
                                       \o NatToString(Len(logger.file[i].entry.values))
                                       \o " parameters redacted]")
                       /\ \A k \in 1..Len(logger.file[i].entry.values) :
                              logger.file[i].entry.values[k] # NullValue
                                  => ~Includes(logger.file[i].line,
                                               logger.file[i].entry.values[k])
                  ELSE ~Includes(logger.file[i].line, "Values:")
           /\ \A i, j \in 1..Len(logger.file) :
                  C19_SameButValues(logger.file[i].entry, logger.file[j].entry)
                      => C19_AfterTimestamp(logger.file[i].line)
                             = C19_AfterTimestamp(logger.file[j].line)

\* The statement before its first UNION.
C21_Main(sql) ==
    IF Includes(sql, " UNION ") THEN StrTake(sql, IndexOf(sql, " UNION ") - 1) ELSE sql

\* The statement has, before any UNION, exactly one ORDER BY clause, which
\* is the given list and is followed by LIMIT, OFFSET, UNION or the end.
C21_OrderByIs(sql, list) ==
    /\ Includes(C21_Main(sql), " ORDER BY ")
    /\ ~Includes(StrFrom(C21_Main(sql), IndexOf(sql, " ORDER BY ") + 1), " ORDER BY ")
    /\ StartsWithAt(sql, " ORDER BY " \o list, IndexOf(sql, " ORDER BY "))
    /\ \E next \in { " LIMIT ", " OFFSET ", " UNION " } :
           \/ StartsWithAt(sql, next, IndexOf(sql, " ORDER BY ") + Len(" ORDER BY " \o list))
           \/ Len(sql) = IndexOf(sql, " ORDER BY ") - 1 + Len(" ORDER BY " \o list)

\* The column an alias or column name stands for in a config.
C21_Column(name, config) ==
    IF \E f \in 1..Len(config.fields) :
           config.fields[f].kind = "col" /\ config.fields[f].key = name
    THEN config.fields[CHOOSE f \in 1..Len(config.fields) : config.fields[f].key = name].val
    ELSE name

\* No field of the config is a subquery, whose own clauses would be part of
\* the statement.
C21_NoSubquery(config) == \A f \in 1..Len(config.fields) : config.fields[f].kind # "sub"

\* C21: when orderBy is an array of {column, direction?} objects, the ORDER
\* BY clause lists in entry order each column, alias-resolved and escaped,
\* followed by the direction of the entry, ASC when it gives none; a shared
\* orderDirection is applied to no entry.
C21_OrderByObjects ==
    ( /\ caller = "queries"
      /\ outcome.op \in { "getData", "getFirst" }
      /\ cfg.orderBy.kind = "objects"
      /\ C21_NoSubquery(cfg) )
        => \A s \in 1..Len(poolCalls) :
               C21_OrderByIs(poolCalls[s].sql,
                   Join([i \in 1..Len(cfg.orderBy.items) |->
                            EscapeId(C21_Column(cfg.orderBy.items[i].column, cfg)) \o " "
                                \o (IF cfg.orderBy.items[i].direction = "" THEN "ASC"
                                    ELSE ToUpperCase(cfg.orderBy.items[i].direction))],
                        ", "))

\* getData has compiled a config whose orderBy is two objects, the first
\* under an alias with DESC and the second without a direction, together
\* with the shared orderDirection DESC and a LIMIT.
C21_Witness ==
    /\ caller = "queries"
    /\ outcome.op = "getData"
    /\ cfg.orderBy.kind = "objects"
    /\ Len(cfg.orderBy.items) = 2
    /\ cfg.orderBy.items[2].direction = ""
    /\ cfg.orderDirection = "DESC"
    /\ Len(poolCalls) = 2
    /\ Includes(poolCalls[1].sql, " ORDER BY ^full_name^ DESC, ^user_id^ ASC LIMIT 50")

\* The texts the caller wrote into a config: where, having and join.on
\* fragments and field expressions.
C22_CallerTexts(config) ==
    { config.where[i] : i \in 1..Len(config.where) }
        \cup { config.having[i] : i \in 1..Len(config.having) }
        \cup { config.joins[i].on : i \in 1..Len(config.joins) }
        \cup { config.fields[i].val : i \in 1..Len(config.fields) }

\* No text the caller wrote holds a clause keyword of its own.
C22_NoClauseKeywords(config) ==
    \A t \in C22_CallerTexts(config) :
        \A kw \in { " WHERE ", " GROUP BY ", " HAVING ", " ORDER BY ", " LIMIT ", " OFFSET ",
                     " UNION " } : ~Includes(t, kw)

\* C22: the row statement of a config without orderBy has exactly the ORDER
\* BY clause <escaped idField> ASC, whatever orderDirection is, placed after
\* WHERE, GROUP BY and HAVING and before LIMIT, OFFSET and UNION.
C22_DefaultOrderBy ==
    ( /\ caller = "queries"
      /\ outcome.op \in { "getData", "getFirst" }
      /\ cfg.orderBy.kind = "none"
      /\ C21_NoSubquery(cfg)
      /\ C22_NoClauseKeywords(cfg)
      /\ Len(poolCalls) > 0 )
        => /\ C21_OrderByIs(poolCalls[1].sql, EscapeId(cfg.idField) \o " ASC")
           /\ \A before \in { " WHERE ", " GROUP BY ", " HAVING " } :
                  Includes(C21_Main(poolCalls[1].sql), before)
                      => IndexOf(poolCalls[1].sql, before)
                             < IndexOf(poolCalls[1].sql, " ORDER BY ")
           /\ \A after \in { " LIMIT ", " OFFSET ", " UNION " } :
                  ~Includes(StrTake(poolCalls[1].sql,
                                    IndexOf(poolCalls[1].sql, " ORDER BY ")), after)
           /\ Len(cfg.having) > 0 => Includes(C21_Main(poolCalls[1].sql), " HAVING ")
           /\ Len(cfg.union) > 0 => Includes(poolCalls[1].sql, " UNION ")

\* getData has compiled a config without orderBy that has a where fragment,
\* GROUP BY, HAVING, the shared orderDirection DESC, a limit, an offset and a
\* union.
C22_Witness ==
    /\ caller = "queries"
    /\ outcome.op = "getData"
    /\ cfg.orderBy.kind = "none"
    /\ cfg.orderDirection = "DESC"
    /\ Len(cfg.where) > 0
    /\ Len(cfg.having) > 0
    /\ Len(cfg.union) > 0
    /\ Len(poolCalls) = 2
    /\ Includes(poolCalls[1].sql,
                " HAVING COUNT(*) > ? ORDER BY ^user_id^ ASC LIMIT 50 OFFSET 10 UNION SELECT ")

\* The column of a string orderBy entry without its inline ASC or DESC.
C23_Bare(column) ==
    IF Len(column) > 5 /\ StartsWithAt(ToUpperCase(column), " DESC", Len(column) - 4)
    THEN StrTake(column, Len(column) - 5)
    ELSE IF Len(column) > 4 /\ StartsWithAt(ToUpperCase(column), " ASC", Len(column) - 3)
    THEN StrTake(column, Len(column) - 4)
    ELSE column

\* C23: when orderBy is an array of strings and the shared orderDirection D
\* is given, the ORDER BY clause lists in entry order each column,
\* alias-resolved and escaped, followed by D; an inline ASC or DESC of an
\* entry is superseded by D and appears neither inside nor outside the
\* quoting.
C23_SharedDirection ==
    ( /\ caller = "queries"
      /\ outcome.op \in { "getData", "getFirst" }
      /\ cfg.orderBy.kind = "strings"
      /\ Len(cfg.orderBy.items) > 0
      /\ cfg.orderDirection # ""
      /\ C21_NoSubquery(cfg) )
        => \A s \in 1..Len(poolCalls) :
               C21_OrderByIs(poolCalls[s].sql,
                   Join([i \in 1..Len(cfg.orderBy.items) |->
                            EscapeId(C21_Column(C23_Bare(cfg.orderBy.items[i].column), cfg))
                                \o " " \o ToUpperCase(cfg.orderDirection)],
                        ", "))

\* The statement part main has exactly the LIMIT clause of the literal n,
\* followed by OFFSET or by the end.
C24_LimitIs(main, n) ==
    /\ Includes(main, " LIMIT ")
    /\ \/ StrFrom(main, IndexOf(main, " LIMIT ")) = " LIMIT " \o n
       \/ StartsWithAt(main, " LIMIT " \o n \o " OFFSET ", IndexOf(main, " LIMIT "))

\* C24: the row statement of a config with a numeric limit, 0 and negative
\* values included, has LIMIT n with n the floor of the absolute value, and
\* the row statement of a config without limit has no LIMIT.
C24_LimitLiteral ==
    ( /\ caller = "queries"
      /\ outcome.op = "getData"
      /\ C21_NoSubquery(cfg)
      /\ C22_NoClauseKeywords(cfg)
      /\ Len(poolCalls) > 0 )
        => IF Len(cfg.limit) > 0
           THEN C24_LimitIs(C21_Main(poolCalls[1].sql), NatToString(Abs(cfg.limit[1])))
           ELSE ~Includes(C21_Main(poolCalls[1].sql), " LIMIT ")

\* Length of the leading field token of a where fragment: a word, or two
\* words joined by a dot.
C25_TokenLen(fragment) ==
    IF WordRunLen(fragment, 1) > 0
           /\ CharAt(fragment, WordRunLen(fragment, 1) + 1) = "."
           /\ WordRunLen(fragment, WordRunLen(fragment, 1) + 2) > 0
    THEN WordRunLen(fragment, 1) + 1 + WordRunLen(fragment, WordRunLen(fragment, 1) + 2)
    ELSE WordRunLen(fragment, 1)

\* No recognised operator follows the leading field token of the fragment,
\* optional white space skipped.
C25_NoOperator(fragment) ==
    \A op \in { "=", "!=", "<>", "<", ">", "<=", ">=", "<=>", "LIKE", "NOT LIKE",
                 "IN", "NOT IN", "IS NULL", "IS NOT NULL", "BETWEEN" } :
        ~StartsWithAt(ToUpperCase(fragment), op,
                      SkipSpaces(fragment, C25_TokenLen(fragment) + 1))

\* C25: a where fragment in which no recognised operator follows the leading
\* field token stands in the WHERE clause of every statement exactly as it
\* was written, whatever aliases the fields define.
C25_NoOperatorUnchanged ==
    (caller = "queries" /\ outcome.op \in { "getData", "getFirst" })
        => \A s \in 1..Len(poolCalls), i \in 1..Len(cfg.where) :
               C25_NoOperator(cfg.where[i])
                   => Includes(poolCalls[s].sql,
                               C13_Lead(i) \o cfg.where[i]
                                   \o (IF i < Len(cfg.where) THEN " AND " ELSE " ORDER BY "))

RECURSIVE C26_Marks(_)
\* The number of ? characters of the text s.
C26_Marks(s) ==
    IF IndexOf(s, "?") = 0 THEN 0 ELSE 1 + C26_Marks(StrFrom(s, IndexOf(s, "?") + 1))

RECURSIVE C26_TextMarks(_)
\* The number of ? characters of the texts of a sequence.
C26_TextMarks(texts) ==
    IF Len(texts) = 0 THEN 0 ELSE C26_Marks(Head(texts)) + C26_TextMarks(Tail(texts))

RECURSIVE C26_CallerMarks(_)
RECURSIVE C26_FieldMarks(_)
RECURSIVE C26_UnionMarks(_)
\* The number of ? characters the caller wrote into the row statement of a
\* config: in where, having and join.on fragments and field expressions, the
\* configs of subquery fields and of union entries included.
C26_CallerMarks(config) ==
    C26_TextMarks(config.where) + C26_TextMarks(config.having)
        + C26_TextMarks([i \in 1..Len(config.joins) |-> config.joins[i].on])
        + C26_FieldMarks(config.fields) + C26_UnionMarks(config.union)

C26_FieldMarks(fields) ==
    IF Len(fields) = 0 THEN 0
    ELSE (IF Head(fields).kind = "sub" THEN C26_CallerMarks(Head(fields).sub[1])
          ELSE C26_Marks(Head(fields).val))
             + C26_FieldMarks(Tail(fields))

C26_UnionMarks(union) ==
    IF Len(union) = 0 THEN 0
    ELSE C26_CallerMarks(Head(union)) + C26_UnionMarks(Tail(union))

\* C26: the row statement of every config, subquery fields and union entries
\* with whereIn / whereNotIn included, has as many generated placeholders as
\* the compiler returned additional values: the ? of the statement that the
\* caller did not write are as many as the bound values that the caller did
\* not pass.
C26_PlaceholdersMatchValues ==
    ( /\ caller = "queries"
      /\ outcome.op \in { "getData", "getFirst" }
      /\ Len(poolCalls) > 0 )
        => C26_Marks(poolCalls[1].sql) - C26_CallerMarks(cfg)
               = Len(poolCalls[1].values) - Len(args.values)

\* The ORDER BY clause of the string entries of a config, each column
\* alias-resolved and escaped and followed by suffix.
C27_OwnClause(config, suffix) ==
    " ORDER BY "
        \o Join([i \in 1..Len(config.orderBy.items) |->
                    EscapeId(C21_Column(config.orderBy.items[i].column, config)) \o suffix],
                ", ")

\* The statement with is the statement without, one occurrence of the clause
\* own0 replaced by own1 and nothing else changed.
C27_OnlyClauseDiffers(with, without, own0, own1) ==
    \E p \in 1..Len(without) :
        /\ StartsWithAt(without, own0, p)
        /\ with = StrTake(without, p - 1) \o own1 \o StrFrom(without, p + Len(own0))

\* C27: with an orderBy array of strings, the statement compiled with a
\* shared orderDirection is the statement compiled without it except for the
\* config's own ORDER BY clause, also when a subquery field or a field
\* expression holds an ORDER BY of its own.
C27_DirectionOnlyInOwnClause ==
    ( /\ caller = "queries"
      /\ outcome.op = "getData"
      /\ cfg.orderBy.kind = "strings"
      /\ Len(cfg.orderBy.items) > 0
      /\ \A i \in 1..Len(cfg.orderBy.items) :
             C23_Bare(cfg.orderBy.items[i].column) = cfg.orderBy.items[i].column
      /\ cfg.orderDirection # ""
      /\ Len(poolCalls) > 0 )
        => C27_OnlyClauseDiffers(poolCalls[1].sql,
                                 BuildQuery([cfg EXCEPT !.orderDirection = ""], FALSE).query,
                                 C27_OwnClause(cfg, ""),
                                 C27_OwnClause(cfg, " " \o ToUpperCase(cfg.orderDirection)))

\* The number of connections the pool handed to the transaction.
C28_Acquired == IF "getConnection" \in tx.failed THEN 0 ELSE C17_Count("getConnection")

\* C28: once withTransaction has settled, for whatever reason, every
\* connection the pool handed out was released exactly once, the transaction
\* is inactive and it holds no connection.
C28_ConnectionReleased ==
    (outcome.op = "withTransaction" /\ pc = "idle")
        => /\ C17_Count("release") = C28_Acquired
           /\ ~tx.isActive
           /\ ~tx.connection

\* begin was called in this step on a Transaction on which an earlier begin
\* has completed or is still awaiting the pool or the connection.
C29_BeginCalledAgain ==
    /\ caller = "createTransaction"
    /\ Len(tx'.begins) = Len(tx.begins) + 1
    /\ \/ tx.isActive
       \/ \E i \in 1..Len(tx.begins) : tx.begins[i].at \in { "getConnection", "beginTransaction" }

\* commit, rollback or getConnection was called in this step on a
\* Transaction that is not active.
C29_CalledInactive ==
    /\ caller = "createTransaction"
    /\ pc = "idle"
    /\ outcome' # outcome
    /\ ~tx.isActive

\* C29: a Transaction holds at most one pool connection at any time; a
\* begin called again, after the first completed or while it is awaiting
\* the pool, fails with 'Transaction already started' and asks the pool for
\* nothing; commit, rollback and getConnection on a transaction that is not
\* active fail with their 'No active transaction' errors and change no
\* state.
C29_SingleConnection ==
    /\ [](caller = "createTransaction" => tx.acquired - C17_Count("release") <= 1)
    /\ [][ /\ C29_BeginCalledAgain
               => /\ tx'.begins[Len(tx'.begins)]
                         = [at |-> "rejected", message |-> "Transaction already started"]
                  /\ tx'.calls = tx.calls
                  /\ tx'.acquired = tx.acquired
           /\ C29_CalledInactive
               => /\ outcome'.status = "rejected"
                  /\ outcome'.message
                         = (IF outcome'.op = "getConnection" THEN "No active transaction"
                            ELSE "No active transaction to " \o outcome'.op)
                  /\ tx' = tx
                  /\ pc' = pc ]_vars

\* C30: after construction and any sequence of updateConfig calls the
\* stream of a QueryLogger is open exactly when enabled and logToFile are
\* both true and no stream has been replaced without being ended; every
\* entry logged while both are true is written to the stream, and no stream
\* is opened while logToFile is false.
C30_StreamFollowsConfig ==
    /\ [](caller = "logger"
             => /\ logger.logStream <=> (logger.enabled /\ logger.logToFile)
                /\ logger.opened - logger.ended = (IF logger.logStream THEN 1 ELSE 0))
    /\ [][ caller = "logger"
             => /\ (logger'.calls # logger.calls /\ logger.enabled /\ logger.logToFile)
                       => Len(logger'.file) = Len(logger.file) + 1
                /\ logger'.opened > logger.opened => logger'.logToFile ]_vars

====
